---- MODULE Spec2Model ----
(***************************************************************************)
(* Model of the Torrent Downloader server (src/unnamed/part_000): the      *)
(* session store (activeDownloads), the per-session progress timers        *)
(* (progressIntervals), the torrent event handlers, the REST handlers and  *)
(* the /stream and /files handlers with their path check and range         *)
(* parsing.                                                                *)
(*                                                                         *)
(* JavaScript strings are sequences of one-character strings, so that      *)
(* startsWith, split, parseInt, path.join and encodeURIComponent are       *)
(* computed character by character.                                        *)
(***************************************************************************)
EXTENDS Integers, Sequences, FiniteSets, TLC

(***************************************************************************)
(* Bounds                                                                  *)
(***************************************************************************)
\* number of download ids uuidv4() hands out (each one fresh)
MaxIds == 2
\* torrent.length of a torrent whose metadata is known, in bytes
MaxLength == 2

Ids == 1..MaxIds

VARIABLES
    activeDownloads,    \* Map id -> download entry
    progressIntervals,  \* Map id -> interval handle; the set of its keys
    torrents,           \* engine side: id -> the WebTorrent torrent object
    nextId,             \* next unused download id
    destroyCallbacks,   \* callbacks handed to torrent.destroy, not yet run
    disk,               \* the paths at which the engine has written output
    emitted,            \* io.emit calls made by the last step, in order
    last,               \* the last request or event and its HTTP status
    removed,            \* ids removed by a DELETE answered 200
    fsFiles,            \* the files on disk: absolute path -> content
    request,            \* the GET /stream or GET /files request handled
    response,           \* and the response it got
    sockets,            \* the connected Socket.IO sockets
    sent,               \* socket -> names of the events sent on it, in order
    client,             \* the browser page: state.downloads, the socket
                        \* events not yet handled, the GET /api/downloads
                        \* request under way
    pipe,               \* the read stream piped into the response of GET
                        \* /stream, and the state of that response
    tree,               \* the directory tree at DOWNLOADS_DIR that GET
                        \* /api/files walks
    proc,               \* the server process: its shutdown, its listener,
                        \* the engine client, its exit
    supplied            \* the name the engine reports for the torrents

sessionVars == <<activeDownloads, progressIntervals, torrents, nextId,
                 destroyCallbacks, disk, emitted, last, removed>>
httpVars == <<fsFiles, request, response>>
socketVars == <<sockets, sent>>
vars == <<activeDownloads, progressIntervals, torrents, nextId,
          destroyCallbacks, disk, emitted, last, removed,
          fsFiles, request, response, sockets, sent, client,
          pipe, tree, proc, supplied>>

(***************************************************************************)
(* Strings                                                                 *)
(***************************************************************************)
\* String.prototype.startsWith
StartsWith(s, prefix) ==
    /\ Len(prefix) <= Len(s)
    /\ SubSeq(s, 1, Len(prefix)) = prefix

\* the placeholder name of createDownloadEntry: 'Loading metadata...'
LoadingName ==
    <<"L","o","a","d","i","n","g"," ","m","e","t","a","d","a","t","a",
      ".",".",".">>

\* characters encodeURIComponent leaves alone (those the model uses)
Unreserved == {"a","b","d","e","f","r","x","0","1","2","3","4","5","6","7",
               "8","9","-","_",".","!","~","*","'","(",")"}

\* percent escape of one reserved character
EscapeOf(c) ==
    CASE c = "/"  -> <<"%","2","F">>
      [] c = "%"  -> <<"%","2","5">>
      [] c = " "  -> <<"%","2","0">>
      [] c = "\\" -> <<"%","5","C">>
      [] c = ","  -> <<"%","2","C">>
      [] c = "="  -> <<"%","3","D">>

RECURSIVE encodeURIComponent(_)
encodeURIComponent(s) ==
    IF s = <<>> THEN <<>>
    ELSE (IF Head(s) \in Unreserved THEN <<Head(s)>> ELSE EscapeOf(Head(s)))
         \o encodeURIComponent(Tail(s))

(***************************************************************************)
(* The engine (WebTorrent), an external collaborator: the values of the    *)
(* torrent object the handlers read.                                       *)
(***************************************************************************)
\* torrent.files once the metadata is known
TorrentFiles ==
    << [name |-> <<"f">>, length |-> MaxLength, path |-> <<"a","/","f">>] >>

\* the torrent object torrentClient.add returns: no metadata yet
NewTorrent ==
    [ready |-> FALSE, name |-> <<>>, length |-> 0, files |-> <<>>,
     destroyed |-> FALSE]

\* the torrent object once the engine has the metadata; a destroyed torrent
\* learns nothing any more, and metadata once known does not change
WithMetadata(t) ==
    IF t.destroyed \/ t.ready THEN t
    ELSE [t EXCEPT !.ready = TRUE, !.name = supplied, !.length = MaxLength,
                   !.files = TorrentFiles]

\* rate and peer samples the engine reports with a download event
Samples == {[ds |-> 1, us |-> 1, np |-> 1]}

\* the torrent object as a download event finds it: the getters downloaded,
\* downloadSpeed, uploadSpeed and numPeers return what the engine has now
Reading(t, d, s) ==
    [name |-> t.name, length |-> t.length, files |-> t.files,
     destroyed |-> t.destroyed, downloaded |-> d,
     downloadSpeed |-> s.ds, uploadSpeed |-> s.us, numPeers |-> s.np]

(***************************************************************************)
(* Number arithmetic of the runtime: IEEE 754 binary64, every operation    *)
(* rounded to the nearest Number, ties to the even significand             *)
(***************************************************************************)
\* bits of the significand of a Number
SignificandBits == 53

\* a positive Number is its significand, SignificandBits bits with the first
\* one set, and the power of two that first bit stands for; zero has no bits
Zero == [sig |-> <<>>, exp |-> 0]

\* bits a significand is cut into to multiply it piece by piece
LimbBits == 18

\* n zero bits
Zeros(n) == [i \in 1..n |-> 0]

\* a bit string plus one, a bit longer when the carry leaves at the top
PlusOne(bits) ==
    LET zeros == {i \in DOMAIN bits : bits[i] = 0} IN
    IF zeros = {} THEN <<1>> \o Zeros(Len(bits))
    ELSE LET k == CHOOSE i \in zeros : \A j \in zeros : j <= i
         IN  SubSeq(bits, 1, k - 1) \o <<1>> \o Zeros(Len(bits) - k)

\* the Number nearest to an exact value: bits are its leading bits, the
\* first one set and worth 2^exp, rest tells how what follows them compares
\* with half a unit of the last place
Nearest(bits, exp, rest) ==
    LET up == rest = "above" \/ (rest = "half" /\ bits[Len(bits)] = 1)
        rounded == IF up THEN PlusOne(bits) ELSE bits
    IN  IF Len(rounded) > Len(bits)
        THEN [sig |-> SubSeq(rounded, 1, Len(bits)), exp |-> exp + 1]
        ELSE [sig |-> rounded, exp |-> exp]

RECURSIVE Shifts(_, _)
\* how often a must be doubled to reach b, for 0 < a <= b
Shifts(a, b) == IF a >= b THEN 0 ELSE 1 + Shifts(2 * a, b)

RECURSIVE Scaled(_, _)
\* a doubled that often
Scaled(a, b) == IF a >= b THEN a ELSE Scaled(2 * a, b)

RECURSIVE PowerOfTwoMod(_, _)
\* 2^n modulo b
PowerOfTwoMod(n, b) ==
    IF n = 0 THEN 1 % b
    ELSE LET h == PowerOfTwoMod(n \div 2, b)
         IN  (h * h * (IF n % 2 = 1 THEN 2 ELSE 1)) % b

\* what is left of r / b after its first n bits, for r < b
Remainder(r, b, n) == (r * PowerOfTwoMod(n, b)) % b

\* a / b as the runtime computes it, for integers 0 <= a <= b, b > 0: the
\* bits of the quotient by long division, the remainder deciding the
\* rounding
Divide(a, b) ==
    IF a = 0 THEN Zero
    ELSE LET r == Scaled(a, b) - b
             n == SignificandBits - 1
             bits == [k \in 1..n |-> (2 * Remainder(r, b, k - 1)) \div b]
             left == Remainder(r, b, n)
             rest == IF 2 * left > b THEN "above"
                     ELSE IF 2 * left = b THEN "half" ELSE "below"
         IN  Nearest(<<1>> \o bits, 0 - Shifts(a, b), rest)

RECURSIVE BitsValue(_)
\* the integer a bit string, highest bit first, stands for
BitsValue(bits) ==
    IF bits = <<>> THEN 0
    ELSE 2 * BitsValue(SubSeq(bits, 1, Len(bits) - 1)) + bits[Len(bits)]

\* the n bits, highest first, of an integer below 2^n
ValueBits(v, n) == [i \in 1..n |-> (v \div 2^(n - i)) % 2]

RECURSIVE ScaleLimbs(_, _, _)
\* limbs, lowest first, times the integer c plus a carry; the last limb of
\* the result is the carry out of the top
ScaleLimbs(limbs, c, carry) ==
    IF limbs = <<>> THEN <<carry>>
    ELSE LET t == Head(limbs) * c + carry
         IN  <<t % 2^LimbBits>>
             \o ScaleLimbs(Tail(limbs), c, t \div 2^LimbBits)

\* a bit string without its leading zeros
Stripped(bits) ==
    LET ones == {i \in DOMAIN bits : bits[i] = 1} IN
    IF ones = {} THEN <<>>
    ELSE SubSeq(bits, CHOOSE i \in ones : \A j \in ones : i <= j, Len(bits))

\* the bits of an integer given by its bits, times the integer c, for
\* 0 < c < 2^(31 - LimbBits)
ScaleBits(bits, c) ==
    LET count == (Len(bits) + LimbBits - 1) \div LimbBits
        padded == Zeros(count * LimbBits - Len(bits)) \o bits
        \* limb i, the lowest being limb 1
        limb(i) == BitsValue(SubSeq(padded,
                                    (count - i) * LimbBits + 1,
                                    (count - i + 1) * LimbBits))
        scaled == ScaleLimbs([i \in 1..count |-> limb(i)], c, 0)
    IN  Stripped([k \in 1..((count + 1) * LimbBits) |->
                    ValueBits(scaled[count + 2 - ((k + LimbBits - 1)
                                                     \div LimbBits)],
                              LimbBits)[((k - 1) % LimbBits) + 1]])

\* x * c as the runtime computes it, for a Number x >= 0 and an integer
\* c > 0: the exact product, then the nearest Number
Times(x, c) ==
    IF x = Zero THEN Zero
    ELSE LET product == ScaleBits(x.sig, c)
             n == Len(product)
             dropped == SubSeq(product, SignificandBits + 1, n)
             rest == IF dropped = <<>> \/ dropped[1] = 0 THEN "below"
                     ELSE IF \A i \in 2..Len(dropped) : dropped[i] = 0
                          THEN "half" ELSE "above"
         IN  Nearest(SubSeq(product, 1, SignificandBits),
                     x.exp + (n - SignificandBits), rest)

\* Math.round(x) for a Number 0 <= x < 2^31: the nearest integer, a tie
\* going up
MathRound(x) ==
    IF x = Zero \/ x.exp < -1 THEN 0
    ELSE IF x.exp = -1 THEN 1
    ELSE BitsValue(SubSeq(x.sig, 1, x.exp + 1))
         + (IF x.exp + 2 <= Len(x.sig) THEN x.sig[x.exp + 2] ELSE 0)

\* torrent.length of the torrents whose progress arithmetic is examined:
\* lengths at which 100 * downloaded / length can fall on a half
ProgressLengths == {8, 40}

\* Math.round(torrent.progress * 100) for every length and every count of
\* downloaded bytes the engine reports, torrent.progress being
\* downloaded / length
Percent ==
    [length \in (1..MaxLength) \cup ProgressLengths |->
       [downloaded \in 0..length |->
          MathRound(Times(Divide(downloaded, length), 100))]]

\* Math.round(torrent.progress * 100), torrent.progress being 0 while the
\* length is 0
RoundedProgress(t) ==
    IF t.length = 0 THEN 0 ELSE Percent[t.length][t.downloaded]

ErrMessage == <<"e","r","r">>
Null == <<"n","u","l","l">>

(***************************************************************************)
(* Helper functions of the server                                          *)
(***************************************************************************)
serializeDownload(id, download) ==
    [id |-> id,
     name |-> download.name,
     progress |-> download.progress,
     downloadSpeed |-> download.downloadSpeed,
     uploadSpeed |-> download.uploadSpeed,
     peers |-> download.peers,
     status |-> download.status,
     files |-> download.files,
     size |-> download.size,
     downloaded |-> download.downloaded,
     error |-> IF download.error \in {Null, <<>>} THEN Null
               ELSE download.error]

\* createDownloadEntry binding every entry to the first torrent of the
\* client instead of the one it was given
createDownloadEntry_FirstTorrent(torrent) ==
    [torrent |-> 1,
     name |-> LoadingName,
     progress |-> 0,
     downloadSpeed |-> 0,
     uploadSpeed |-> 0,
     peers |-> 0,
     status |-> "downloading",
     files |-> <<>>,
     size |-> 0,
     downloaded |-> 0,
     error |-> Null]

createDownloadEntry(torrent) ==
    [torrent |-> torrent,
     name |-> LoadingName,
     progress |-> 0,
     downloadSpeed |-> 0,
     uploadSpeed |-> 0,
     peers |-> 0,
     status |-> "downloading",
     files |-> <<>>,
     size |-> 0,
     downloaded |-> 0,
     error |-> Null]

\* progressIntervals after cleanupDownload(downloadId)
cleanupDownload(intervals, downloadId) == intervals \ {downloadId}

\* activeDownloads.get(id) is not undefined
Has(id) == id \in DOMAIN activeDownloads

\* Map.set and Map.delete
MapSet(m, k, v) == [x \in DOMAIN m \cup {k} |-> IF x = k THEN v ELSE m[x]]
MapDelete(m, k) == [x \in DOMAIN m \ {k} |-> m[x]]

Update(ev, data) == [event |-> ev, data |-> data]

\* events a socket is sent while it is connected, at most
MaxSent == 2
\* socket events sent to the browser page and not yet handled by it, at most
MaxInbox == 2

\* io.emit: every event the step emits goes to every connected socket, in
\* the order of the calls
Fanout ==
    /\ sockets' = sockets
    /\ IF emitted' = <<>>
       THEN sent' = sent
       ELSE /\ \A c \in sockets : Len(sent[c]) + Len(emitted') <= MaxSent
            /\ sent' = [c \in sockets |->
                           sent[c] \o [i \in DOMAIN emitted' |->
                                          emitted'[i].event]]
    /\ IF emitted' = <<>> \/ ~client.connected
       THEN client' = client
       ELSE /\ Len(client.inbox) + Len(emitted') <= MaxInbox
            /\ client' = [client EXCEPT !.inbox = @ \o emitted']

(***************************************************************************)
(* Paths (Node's posix path module) and URI decoding                       *)
(***************************************************************************)
\* length of a requested path
MaxPathLen == 5

RECURSIVE Split(_, _)
\* String.prototype.split with a one-character separator
Split(s, c) ==
    IF \A i \in DOMAIN s : s[i] # c THEN <<s>>
    ELSE LET i == CHOOSE k \in DOMAIN s :
                     s[k] = c /\ \A j \in 1..(k - 1) : s[j] # c
         IN <<SubSeq(s, 1, i - 1)>> \o Split(SubSeq(s, i + 1, Len(s)), c)

RECURSIVE JoinWith(_, _)
\* Array.prototype.join
JoinWith(parts, sep) ==
    IF parts = <<>> THEN <<>>
    ELSE IF Len(parts) = 1 THEN parts[1]
    ELSE parts[1] \o sep \o JoinWith(Tail(parts), sep)

RECURSIVE normalizeString(_, _, _)
\* path.js normalizeString: resolves "." and ".." segments; acc is the
\* result so far
normalizeString(segs, acc, allowAboveRoot) ==
    IF segs = <<>> THEN acc
    ELSE LET h == Head(segs) IN
         IF h = <<>> \/ h = <<".">>
         THEN normalizeString(Tail(segs), acc, allowAboveRoot)
         ELSE IF h = <<".", ".">>
         THEN IF acc # <<>> /\ acc[Len(acc)] # <<".", ".">>
              THEN normalizeString(Tail(segs), SubSeq(acc, 1, Len(acc) - 1),
                                   allowAboveRoot)
              ELSE IF allowAboveRoot
              THEN normalizeString(Tail(segs), Append(acc, h), allowAboveRoot)
              ELSE normalizeString(Tail(segs), acc, allowAboveRoot)
         ELSE normalizeString(Tail(segs), Append(acc, h), allowAboveRoot)

\* path.normalize
normalize(path) ==
    IF path = <<>> THEN <<".">>
    ELSE LET isAbsolute == path[1] = "/"
             trailingSeparator == path[Len(path)] = "/"
             body == JoinWith(normalizeString(Split(path, "/"), <<>>,
                                              ~isAbsolute), <<"/">>)
         IN IF body = <<>>
            THEN (IF isAbsolute THEN <<"/">>
                  ELSE IF trailingSeparator THEN <<".", "/">> ELSE <<".">>)
            ELSE (IF isAbsolute THEN <<"/">> ELSE <<>>) \o body \o
                 (IF trailingSeparator THEN <<"/">> ELSE <<>>)

\* path.join of two arguments: empty arguments are skipped
pathJoin(a, b) ==
    LET joined == IF a = <<>> THEN b
                  ELSE IF b = <<>> THEN a
                  ELSE a \o <<"/">> \o b
    IN IF joined = <<>> THEN <<".">> ELSE normalize(joined)

\* CONFIG.DOWNLOADS_DIR = path.join(__dirname, 'downloads'), the server
\* being installed in /
DOWNLOADS_DIR == pathJoin(<<"/">>, <<"d">>)

URIError == <<"URIError">>

\* the character a percent escape stands for
Unescape(h1, h2) ==
    CASE <<h1, h2>> \in {<<"2","F">>, <<"2","f">>} -> "/"
      [] <<h1, h2>> \in {<<"2","E">>, <<"2","e">>} -> "."
      [] <<h1, h2>> = <<"2","5">> -> "%"
      [] <<h1, h2>> = <<"2","0">> -> " "
      [] <<h1, h2>> \in {<<"5","C">>, <<"5","c">>} -> "\\"
      [] <<h1, h2>> \in {<<"2","C">>, <<"2","c">>} -> ","
      [] <<h1, h2>> \in {<<"3","D">>, <<"3","d">>} -> "="
      [] OTHER -> "?"

RECURSIVE decodeURIComponent(_)
\* decodeURIComponent: URIError for a malformed escape (the model's requests
\* use only the escapes Unescape knows)
decodeURIComponent(s) ==
    IF s = <<>> THEN <<>>
    ELSE IF Head(s) # "%"
    THEN LET rest == decodeURIComponent(Tail(s))
         IN IF rest = URIError THEN URIError ELSE <<Head(s)>> \o rest
    ELSE IF Len(s) < 3 \/ Unescape(s[2], s[3]) = "?" THEN URIError
    ELSE LET rest == decodeURIComponent(SubSeq(s, 4, Len(s)))
         IN IF rest = URIError THEN URIError
            ELSE <<Unescape(s[2], s[3])>> \o rest

(***************************************************************************)
(* The file system the /stream and /files handlers read                    *)
(***************************************************************************)
\* size of the file served
MaxFileSize == 2

\* the file in the downloads directory and a file next to that directory
\* whose name begins with the directory's name
FileInRoot == <<"/","d","/","x">>
FileBesideRoot == <<"/","d","x">>
Directories == { <<"/">>, <<"/","d">> }

\* a disk whose file in the downloads directory has n bytes
Disk(n) ==
    [p \in {FileInRoot, FileBesideRoot} |->
        IF p = FileInRoot THEN [i \in 1..n |-> 10 + i] ELSE <<99>>]

RECURSIVE StripSeparators(_)
StripSeparators(p) ==
    IF Len(p) > 1 /\ p[Len(p)] = "/"
    THEN StripSeparators(SubSeq(p, 1, Len(p) - 1)) ELSE p

IsDirectory(p) == StripSeparators(p) \in Directories

\* fs.existsSync: a path with a trailing separator names a directory only
existsSync(fs, p) ==
    \/ IsDirectory(p)
    \/ p \in DOMAIN fs

\* fs.statSync(p).size; the size of a directory is the platform's business
\* and no header of a directory is looked at
statSize(fs, p) == IF p \in DOMAIN fs THEN Len(fs[p]) ELSE 0

NoRequest == [op |-> "none"]

Response(status, touched, path, headers, body) ==
    [status |-> status, touched |-> touched, path |-> path,
     headers |-> headers, body |-> body]

NoHeaders == [h \in {} |-> <<>>]

\* no response yet
NoResponse == Response(0, FALSE, <<>>, NoHeaders, <<>>)

EmptyMap == [x \in {} |-> x]

\* no stream has been piped into a response
NoPipe == [stream |-> "none", res |-> "none", written |-> 0, total |-> 0]

\* the pipe as GET /stream leaves it: after writeHead(200 or 206) the read
\* stream is open and piped into the response; any other answer is complete
StartPipe(resp) ==
    IF resp.status \in {200, 206}
    THEN [stream |-> "reading", res |-> "open", written |-> 0,
          total |-> Len(resp.body)]
    ELSE [stream |-> "none", res |-> "ended", written |-> 0, total |-> 0]

\* nodes of a directory tree: a file of a size, a directory (readable or
\* not) with its entries by name, an entry that statSync fails on
File(size) ==
    [kind |-> "file", size |-> size, readable |-> TRUE, entries |-> EmptyMap]
Dir(readable, entries) ==
    [kind |-> "dir", size |-> 0, readable |-> readable, entries |-> entries]
Broken ==
    [kind |-> "broken", size |-> 0, readable |-> FALSE, entries |-> EmptyMap]
\* what is at DOWNLOADS_DIR when nothing exists there
Missing ==
    [kind |-> "missing", size |-> 0, readable |-> FALSE, entries |-> EmptyMap]

\* the downloads directory as the server creates it at startup, on a
\* platform whose path separator is /
EmptyRoot == [sep |-> "/", root |-> Dir(TRUE, EmptyMap)]

\* the process as server.listen leaves it: the engine client up, the
\* listener open, gracefulShutdown not called; steps are the stages of the
\* shutdown reached so far, in order
Running ==
    [started |-> FALSE, calls |-> 0, engine |-> "up",
     listener |-> "listening", destroying |-> 0, closing |-> 0,
     timeouts |-> 0, steps |-> <<>>, exited |-> FALSE, code |-> 0]

\* no GET /api/downloads under way
NoPending == [state |-> "none", list |-> <<>>]

\* no removeDownload under way
NoRemoval == [state |-> "none", id |-> 0]

\* the browser before the page is loaded: state.downloads, the ids of the
\* cards in elements.downloadsList, the text of elements.downloadCount, the
\* removeDownload call under way, the card removals its timeouts hold, the
\* ids removeDownload was called for and those it succeeded for
ClosedPage ==
    [page |-> "closed", connected |-> FALSE, downloads |-> EmptyMap,
     inbox |-> <<>>, pending |-> NoPending,
     cards |-> {}, count |-> 0, removal |-> NoRemoval, timers |-> {},
     asked |-> {}, gone |-> {}]

Init ==
    /\ activeDownloads = EmptyMap
    /\ progressIntervals = {}
    /\ torrents = EmptyMap
    /\ nextId = 1
    /\ destroyCallbacks = {}
    /\ disk = {}
    /\ emitted = <<>>
    /\ last = [op |-> "init", id |-> 0, code |-> 0]
    /\ removed = {}
    /\ fsFiles = Disk(MaxFileSize)
    /\ request = NoRequest
    /\ response = NoResponse
    /\ sockets = {}
    /\ sent = EmptyMap
    /\ client = ClosedPage
    /\ pipe = NoPipe
    /\ tree = EmptyRoot
    /\ proc = Running
    /\ supplied = <<"a">>

(***************************************************************************)
(* POST /api/download                                                      *)
(***************************************************************************)
\* JavaScript values a JSON body can give req.body.magnetLink: a string, a
\* number (by its digits), an array holding one string, or nothing at all
JsString(s) == [type |-> "string", value |-> s]
JsNumber(digits) == [type |-> "number", value |-> digits]
JsArray(s) == [type |-> "object", value |-> s]
Undefined == [type |-> "undefined", value |-> <<>>]

\* !v
Falsy(v) ==
    \/ v.type = "undefined"
    \/ v.type = "string" /\ v.value = <<>>
    \/ v.type = "number" /\ v.value = <<"0">>

MagnetPrefix == <<"m","a","g","n","e","t",":","?">>
MAX_MAGNET_LENGTH == 2000
\* express.json({ limit: '10kb' })
JSON_LIMIT == 10240

\* a magnet link of n characters
MagnetOfLength(n) == MagnetPrefix \o [i \in 1..(n - Len(MagnetPrefix)) |-> "x"]

\* bytes of the JSON text {"magnetLink":v}, or of {} when v is undefined
BodyBytes(v) ==
    CASE v.type = "undefined" -> 2
      [] v.type = "string"    -> 15 + 2 + Len(v.value)
      [] v.type = "number"    -> 15 + Len(v.value)
      [] v.type = "object"    -> 15 + 4 + Len(v.value)

\* the request bodies sent, by name: magnet links (short, of exactly the
\* maximum length, one character longer, and one that makes the body one byte
\* larger than the parser's limit), a link of another scheme, the empty
\* string, a number, an array holding a magnet link, and no magnetLink
Bodies ==
    [magnet    |-> JsString(MagnetPrefix \o <<"x">>),
     longest   |-> JsString(MagnetOfLength(MAX_MAGNET_LENGTH)),
     tooLong   |-> JsString(MagnetOfLength(MAX_MAGNET_LENGTH + 1)),
     tooLarge  |-> JsString(MagnetOfLength(JSON_LIMIT - 17 + 1)),
     http      |-> JsString(<<"h","t","t","p",":">>),
     empty     |-> JsString(<<>>),
     number    |-> JsNumber(<<"5">>),
     array     |-> JsArray(MagnetPrefix \o <<"x">>),
     missing   |-> Undefined]

MagnetLinks == DOMAIN Bodies

\* isValidMagnetLink with >= for >: a link of exactly the maximum length is
\* rejected
isValidMagnetLink_RejectsLongest(magnetLink) ==
    IF Falsy(magnetLink) \/ magnetLink.type # "string" THEN FALSE
    ELSE IF Len(magnetLink.value) >= MAX_MAGNET_LENGTH THEN FALSE
    ELSE StartsWith(magnetLink.value, MagnetPrefix)

isValidMagnetLink(magnetLink) ==
    IF Falsy(magnetLink) \/ magnetLink.type # "string" THEN FALSE
    ELSE IF Len(magnetLink.value) > MAX_MAGNET_LENGTH THEN FALSE
    ELSE StartsWith(magnetLink.value, MagnetPrefix)

\* body: the name of the request body; addThrows: torrentClient.add throws.
\* The JSON body parser answers 413 to a body over its limit and the handler
\* is not called.
PostDownload(body, addThrows) ==
    /\ nextId <= MaxIds
    /\ LET magnetLink == Bodies[body]
           answer(code, id) == [op |-> "post", id |-> id, code |-> code,
                                body |-> body, addThrows |-> addThrows]
       IN
       IF BodyBytes(magnetLink) > JSON_LIMIT
       THEN /\ last' = answer(413, 0)
            /\ UNCHANGED <<activeDownloads, progressIntervals, torrents,
                           nextId>>
       ELSE IF ~isValidMagnetLink(magnetLink)
       THEN /\ last' = answer(400, 0)
            /\ UNCHANGED <<activeDownloads, progressIntervals, torrents,
                           nextId>>
       ELSE IF addThrows
       THEN /\ last' = answer(500, 0)
            /\ UNCHANGED <<activeDownloads, progressIntervals, torrents,
                           nextId>>
       ELSE LET downloadId == nextId IN
            /\ torrents' = MapSet(torrents, downloadId, NewTorrent)
            /\ activeDownloads' =
                   MapSet(activeDownloads, downloadId,
                          createDownloadEntry(downloadId))
            \* setupTorrentEventHandlers: the handlers exist from here on
            \* (id \in DOMAIN torrents) and the interval is registered
            /\ progressIntervals' = progressIntervals \cup {downloadId}
            /\ nextId' = nextId + 1
            /\ last' = answer(200, downloadId)
    /\ emitted' = <<>>
    /\ UNCHANGED <<destroyCallbacks, disk, removed,
                   fsFiles, request, response,
                   pipe, tree, proc, supplied>>
    /\ Fanout

(***************************************************************************)
(* setupTorrentEventHandlers: the four handlers and the interval           *)
(***************************************************************************)
\* OnMetadata with the emit placed before the mutation: the update carries
\* the snapshot as it was before the event
OnMetadata_EmitsFirst(downloadId) ==
    /\ downloadId \in DOMAIN torrents
    /\ LET torrent == WithMetadata(torrents[downloadId]) IN
       /\ torrents' = [torrents EXCEPT ![downloadId] = torrent]
       /\ IF ~Has(downloadId)
          THEN /\ emitted' = <<>>
               /\ UNCHANGED activeDownloads
          ELSE /\ activeDownloads' =
                    [activeDownloads EXCEPT ![downloadId] =
                       [@ EXCEPT !.name = torrent.name,
                                 !.size = torrent.length,
                                 !.files = [i \in DOMAIN torrent.files |->
                                     [name |-> torrent.files[i].name,
                                      size |-> torrent.files[i].length,
                                      path |-> torrent.files[i].path]]]]
               /\ emitted' = << Update("download-update",
                                  serializeDownload(downloadId,
                                      activeDownloads[downloadId])) >>
    /\ last' = [op |-> "metadata", id |-> downloadId, code |-> 0]
    /\ UNCHANGED <<progressIntervals, nextId, destroyCallbacks, disk, removed,
                   fsFiles, request, response,
                   pipe, tree, proc, supplied>>
    /\ Fanout

\* torrent.on('metadata'): the engine has the metadata, the handler runs
OnMetadata(downloadId) ==
    /\ downloadId \in DOMAIN torrents
    /\ LET torrent == WithMetadata(torrents[downloadId]) IN
       /\ torrents' = [torrents EXCEPT ![downloadId] = torrent]
       /\ IF ~Has(downloadId)
          THEN /\ emitted' = <<>>
               /\ UNCHANGED activeDownloads
          ELSE LET download ==
                     [activeDownloads[downloadId] EXCEPT
                        !.name = torrent.name,
                        !.size = torrent.length,
                        !.files = [i \in DOMAIN torrent.files |->
                                     [name |-> torrent.files[i].name,
                                      size |-> torrent.files[i].length,
                                      path |-> torrent.files[i].path]]]
               IN /\ activeDownloads' =
                        [activeDownloads EXCEPT ![downloadId] = download]
                  /\ emitted' = << Update("download-update",
                                     serializeDownload(downloadId, download)) >>
    /\ last' = [op |-> "metadata", id |-> downloadId, code |-> 0]
    /\ UNCHANGED <<progressIntervals, nextId, destroyCallbacks, disk, removed,
                   fsFiles, request, response,
                   pipe, tree, proc, supplied>>
    /\ Fanout

\* torrent.on('download'): the engine reports downloaded bytes d (verified
\* and in-progress data, so d may go down when a piece fails its hash) and
\* a rate sample s, then the handler runs
OnDownload(downloadId, d, s) ==
    /\ downloadId \in DOMAIN torrents
    /\ d <= torrents[downloadId].length
    /\ LET torrent == Reading(torrents[downloadId], d, s) IN
       \* the engine writes its output at its path option joined with
       \* the torrent's name
       /\ disk' = IF d > 0 /\ ~torrent.destroyed
                  THEN disk \cup {pathJoin(DOWNLOADS_DIR, torrent.name)}
                  ELSE disk
       /\ IF ~Has(downloadId)
          THEN UNCHANGED activeDownloads
          ELSE activeDownloads' =
                 [activeDownloads EXCEPT ![downloadId] =
                    [@ EXCEPT !.progress = RoundedProgress(torrent),
                              !.downloadSpeed = torrent.downloadSpeed,
                              !.uploadSpeed = torrent.uploadSpeed,
                              !.peers = torrent.numPeers,
                              !.downloaded = torrent.downloaded]]
    /\ emitted' = <<>>
    /\ last' = [op |-> "download", id |-> downloadId, code |-> 0]
    /\ UNCHANGED <<progressIntervals, torrents, nextId, destroyCallbacks,
                   removed,
                   fsFiles, request, response,
                   pipe, tree, proc, supplied>>
    /\ Fanout

\* torrent.on('done')
OnDone(downloadId) ==
    /\ downloadId \in DOMAIN torrents
    /\ progressIntervals' = cleanupDownload(progressIntervals, downloadId)
    /\ IF ~Has(downloadId)
       THEN /\ emitted' = <<>>
            /\ UNCHANGED activeDownloads
       ELSE LET torrent == torrents[downloadId]
                download ==
                  [activeDownloads[downloadId] EXCEPT
                     !.status = "completed",
                     !.progress = 100,
                     !.files = [i \in DOMAIN torrent.files |->
                                  [name |-> torrent.files[i].name,
                                   size |-> torrent.files[i].length,
                                   path |-> torrent.files[i].path,
                                   downloadUrl |->
                                     <<"/","f","i","l","e","s","/">> \o
                                     encodeURIComponent(
                                         torrent.files[i].path)]]]
            IN /\ activeDownloads' =
                     [activeDownloads EXCEPT ![downloadId] = download]
               /\ emitted' = << Update("download-update",
                                  serializeDownload(downloadId, download)) >>
    /\ last' = [op |-> "done", id |-> downloadId, code |-> 0]
    /\ UNCHANGED <<torrents, nextId, destroyCallbacks, disk, removed,
                   fsFiles, request, response,
                   pipe, tree, proc, supplied>>
    /\ Fanout

\* OnError without its early return: a missing entry is created anew
OnError_Upserts(downloadId) ==
    /\ downloadId \in DOMAIN torrents
    /\ progressIntervals' = cleanupDownload(progressIntervals, downloadId)
    /\ LET download ==
            [(IF Has(downloadId) THEN activeDownloads[downloadId]
              ELSE createDownloadEntry(downloadId)) EXCEPT
                 !.status = "error",
                 !.error = ErrMessage]
       IN /\ activeDownloads' = MapSet(activeDownloads, downloadId, download)
          /\ emitted' = << Update("download-update",
                             serializeDownload(downloadId, download)) >>
    /\ last' = [op |-> "error", id |-> downloadId, code |-> 0]
    /\ UNCHANGED <<torrents, nextId, destroyCallbacks, disk, removed,
                   fsFiles, request, response,
                   pipe, tree, proc, supplied>>
    /\ Fanout

\* torrent.on('error')
OnError(downloadId) ==
    /\ downloadId \in DOMAIN torrents
    /\ progressIntervals' = cleanupDownload(progressIntervals, downloadId)
    /\ IF ~Has(downloadId)
       THEN /\ emitted' = <<>>
            /\ UNCHANGED activeDownloads
       ELSE LET download ==
                  [activeDownloads[downloadId] EXCEPT
                     !.status = "error",
                     !.error = ErrMessage]
            IN /\ activeDownloads' =
                     [activeDownloads EXCEPT ![downloadId] = download]
               /\ emitted' = << Update("download-update",
                                  serializeDownload(downloadId, download)) >>
    /\ last' = [op |-> "error", id |-> downloadId, code |-> 0]
    /\ UNCHANGED <<torrents, nextId, destroyCallbacks, disk, removed,
                   fsFiles, request, response,
                   pipe, tree, proc, supplied>>
    /\ Fanout

\* the setInterval callback of an interval that clearInterval does not
\* stop: it fires for every id handed out
Tick_NeverCleared(downloadId) ==
    /\ downloadId < nextId
    /\ emitted' =
         IF Has(downloadId)
            /\ activeDownloads[downloadId].status = "downloading"
         THEN << Update("download-update",
                   serializeDownload(downloadId,
                                     activeDownloads[downloadId])) >>
         ELSE <<>>
    /\ last' = [op |-> "tick", id |-> downloadId, code |-> 0]
    /\ UNCHANGED <<activeDownloads, progressIntervals, torrents, nextId,
                   destroyCallbacks, disk, removed,
                   fsFiles, request, response,
                   pipe, tree, proc, supplied>>
    /\ Fanout

\* the setInterval callback; it fires only while its interval is registered
Tick(downloadId) ==
    /\ downloadId \in progressIntervals
    /\ emitted' =
         IF Has(downloadId)
            /\ activeDownloads[downloadId].status = "downloading"
         THEN << Update("download-update",
                   serializeDownload(downloadId,
                                     activeDownloads[downloadId])) >>
         ELSE <<>>
    /\ last' = [op |-> "tick", id |-> downloadId, code |-> 0]
    /\ UNCHANGED <<activeDownloads, progressIntervals, torrents, nextId,
                   destroyCallbacks, disk, removed,
                   fsFiles, request, response,
                   pipe, tree, proc, supplied>>
    /\ Fanout

(***************************************************************************)
(* DELETE /api/download/:id and DELETE /api/download/:id/files             *)
(***************************************************************************)
\* DeleteDownload without activeDownloads.delete(id): the entry stays in the
\* store although the request is answered 200
DeleteDownload_KeepsEntry(id, destroyThrows) ==
    /\ IF ~Has(id)
       THEN /\ last' = [op |-> "delete", id |-> id, code |-> 404]
            /\ UNCHANGED <<activeDownloads, progressIntervals, torrents,
                           removed>>
       ELSE /\ progressIntervals' = cleanupDownload(progressIntervals, id)
            /\ IF destroyThrows
               THEN /\ last' = [op |-> "delete", id |-> id, code |-> 500]
                    /\ UNCHANGED <<activeDownloads, torrents, removed>>
               ELSE /\ torrents' = [torrents EXCEPT
                          ![activeDownloads[id].torrent].destroyed = TRUE]
                    /\ UNCHANGED activeDownloads
                    /\ removed' = removed \cup {id}
                    /\ last' = [op |-> "delete", id |-> id, code |-> 200]
    /\ emitted' = <<>>
    /\ UNCHANGED <<nextId, destroyCallbacks, disk,
                   fsFiles, request, response,
                   pipe, tree, proc, supplied>>
    /\ Fanout

\* DeleteDownload clearing every interval instead of the one of its id
DeleteDownload_ClearsAllTimers(id, destroyThrows) ==
    /\ IF ~Has(id)
       THEN /\ last' = [op |-> "delete", id |-> id, code |-> 404]
            /\ UNCHANGED <<activeDownloads, progressIntervals, torrents,
                           removed>>
       ELSE /\ progressIntervals' = {}
            /\ IF destroyThrows
               THEN /\ last' = [op |-> "delete", id |-> id, code |-> 500]
                    /\ UNCHANGED <<activeDownloads, torrents, removed>>
               ELSE /\ torrents' = [torrents EXCEPT
                          ![activeDownloads[id].torrent].destroyed = TRUE]
                    /\ activeDownloads' = MapDelete(activeDownloads, id)
                    /\ removed' = removed \cup {id}
                    /\ last' = [op |-> "delete", id |-> id, code |-> 200]
    /\ emitted' = <<>>
    /\ UNCHANGED <<nextId, destroyCallbacks, disk,
                   fsFiles, request, response,
                   pipe, tree, proc, supplied>>
    /\ Fanout

\* destroyThrows: download.torrent.destroy throws
DeleteDownload(id, destroyThrows) ==
    /\ IF ~Has(id)
       THEN /\ last' = [op |-> "delete", id |-> id, code |-> 404]
            /\ UNCHANGED <<activeDownloads, progressIntervals, torrents,
                           removed>>
       ELSE /\ progressIntervals' = cleanupDownload(progressIntervals, id)
            /\ IF destroyThrows
               THEN /\ last' = [op |-> "delete", id |-> id, code |-> 500]
                    /\ UNCHANGED <<activeDownloads, torrents, removed>>
               ELSE /\ torrents' = [torrents EXCEPT
                          ![activeDownloads[id].torrent].destroyed = TRUE]
                    /\ activeDownloads' = MapDelete(activeDownloads, id)
                    /\ removed' = removed \cup {id}
                    /\ last' = [op |-> "delete", id |-> id, code |-> 200]
    /\ emitted' = <<>>
    /\ UNCHANGED <<nextId, destroyCallbacks, disk,
                   fsFiles, request, response,
                   pipe, tree, proc, supplied>>
    /\ Fanout

\* DeleteDownloadFiles removing the output before torrent.destroy has called
\* back: fs.rmSync runs in the handler itself
DeleteDownloadFiles_DeletesAtOnce(id, destroyThrows) ==
    /\ IF ~Has(id)
       THEN /\ last' = [op |-> "deleteFiles", id |-> id, code |-> 404]
            /\ UNCHANGED <<activeDownloads, progressIntervals, torrents,
                           removed, destroyCallbacks>>
       ELSE /\ progressIntervals' = cleanupDownload(progressIntervals, id)
            /\ IF destroyThrows
               THEN /\ last' = [op |-> "deleteFiles", id |-> id,
                                code |-> 500]
                    /\ UNCHANGED <<activeDownloads, torrents, removed,
                                   destroyCallbacks>>
               ELSE /\ destroyCallbacks' = destroyCallbacks \cup
                          {[id |-> id,
                            torrentPath |->
                               pathJoin(DOWNLOADS_DIR,
                                        activeDownloads[id].name)]}
                    /\ torrents' = [torrents EXCEPT
                          ![activeDownloads[id].torrent].destroyed = TRUE]
                    /\ activeDownloads' = MapDelete(activeDownloads, id)
                    /\ removed' = removed \cup {id}
                    /\ last' = [op |-> "deleteFiles", id |-> id,
                                code |-> 200]
    /\ disk' = IF Has(id) /\ ~destroyThrows
               THEN disk \ {pathJoin(DOWNLOADS_DIR, activeDownloads[id].name)}
               ELSE disk
    /\ emitted' = <<>>
    /\ UNCHANGED <<nextId,
                   fsFiles, request, response,
                   pipe, tree, proc, supplied>>
    /\ Fanout

DeleteDownloadFiles(id, destroyThrows) ==
    /\ IF ~Has(id)
       THEN /\ last' = [op |-> "deleteFiles", id |-> id, code |-> 404]
            /\ UNCHANGED <<activeDownloads, progressIntervals, torrents,
                           removed, destroyCallbacks>>
       ELSE /\ progressIntervals' = cleanupDownload(progressIntervals, id)
            /\ IF destroyThrows
               THEN /\ last' = [op |-> "deleteFiles", id |-> id,
                                code |-> 500]
                    /\ UNCHANGED <<activeDownloads, torrents, removed,
                                   destroyCallbacks>>
               ELSE /\ destroyCallbacks' = destroyCallbacks \cup
                          {[id |-> id,
                            torrentPath |->
                               pathJoin(DOWNLOADS_DIR,
                                        activeDownloads[id].name)]}
                    /\ torrents' = [torrents EXCEPT
                          ![activeDownloads[id].torrent].destroyed = TRUE]
                    /\ activeDownloads' = MapDelete(activeDownloads, id)
                    /\ removed' = removed \cup {id}
                    /\ last' = [op |-> "deleteFiles", id |-> id,
                                code |-> 200]
    /\ emitted' = <<>>
    /\ UNCHANGED <<nextId, disk,
                   fsFiles, request, response,
                   pipe, tree, proc, supplied>>
    /\ Fanout

\* p is the path q or lies below it
AtOrBelow(p, q) ==
    \/ p = q
    \/ StartsWith(p, IF q = <<"/">> THEN q ELSE q \o <<"/">>)

\* fs.existsSync(torrentPath): the directories of the installation exist,
\* and so does whatever the engine has written
PathExists(written, p) ==
    \/ IsDirectory(p)
    \/ \E w \in written : AtOrBelow(w, p)

\* what is left of the engine's output after
\* fs.rmSync(torrentPath, { recursive: true, force: true })
rmSync(written, p) == {w \in written : ~AtOrBelow(w, p)}

\* the callback given to torrent.destroy runs: the engine has torn the
\* torrent down
DestroyCallback(cb) ==
    /\ cb \in destroyCallbacks
    /\ destroyCallbacks' = destroyCallbacks \ {cb}
    /\ disk' = IF PathExists(disk, cb.torrentPath)
               THEN rmSync(disk, cb.torrentPath) ELSE disk
    /\ emitted' = <<>>
    /\ last' = [op |-> "destroyed", id |-> cb.id, code |-> 0,
                path |-> cb.torrentPath,
                deleted |-> PathExists(disk, cb.torrentPath)]
    /\ UNCHANGED <<activeDownloads, progressIntervals, torrents, nextId,
                   removed,
                   fsFiles, request, response,
                   pipe, tree, proc, supplied>>
    /\ Fanout

(***************************************************************************)
(* The session manager                                                     *)
(***************************************************************************)
Next ==
    \/ \E m \in MagnetLinks, addThrows \in BOOLEAN : PostDownload(m, addThrows)
    \/ \E id \in Ids : OnMetadata(id)
    \/ \E id \in Ids, d \in 0..MaxLength, s \in Samples : OnDownload(id, d, s)
    \/ \E id \in Ids : OnDone(id)
    \/ \E id \in Ids : OnError(id)
    \/ \E id \in Ids : Tick(id)
    \/ \E id \in Ids, t \in BOOLEAN : DeleteDownload(id, t)
    \/ \E id \in Ids, t \in BOOLEAN : DeleteDownloadFiles(id, t)
    \/ \E cb \in destroyCallbacks : DestroyCallback(cb)

Spec == Init /\ [][Next]_vars

(***************************************************************************)
(* Socket.IO connections. A socket is added to the namespace and the       *)
(* connection handler runs in the same turn of the event loop, so no       *)
(* io.emit falls between the two.                                          *)
(***************************************************************************)
\* sockets connected at the same time, at most
MaxSockets == 2

Sockets == 1..MaxSockets

\* the elements of a set of numbers in ascending order: the insertion order
\* of the Map, ids being handed out in this order
RECURSIVE Ascending(_)
Ascending(S) ==
    IF S = {} THEN <<>>
    ELSE LET m == CHOOSE x \in S : \A y \in S : x <= y
         IN <<m>> \o Ascending(S \ {m})

getAllDownloads ==
    LET order == Ascending(DOMAIN activeDownloads) IN
    [i \in DOMAIN order |->
        serializeDownload(order[i], activeDownloads[order[i]])]

\* the connection handler without its socket.emit: the socket joins and is
\* sent no downloads-list
Connect_NoList(c) ==
    /\ c \notin sockets
    /\ sockets' = sockets \cup {c}
    /\ sent' = MapSet(sent, c, <<>>)
    /\ emitted' = <<>>
    /\ last' = [op |-> "connect", id |-> 0, code |-> 0, socket |-> c,
                list |-> getAllDownloads]
    /\ UNCHANGED <<activeDownloads, progressIntervals, torrents, nextId,
                   destroyCallbacks, disk, removed, fsFiles, request,
                   response, client,
                   pipe, tree, proc, supplied>>

\* io.on('connection'): a new socket c; last.list is the array the handler
\* sends with downloads-list
Connect(c) ==
    /\ c \notin sockets
    /\ sockets' = sockets \cup {c}
    /\ sent' = MapSet(sent, c, <<"downloads-list">>)
    /\ emitted' = <<>>
    /\ last' = [op |-> "connect", id |-> 0, code |-> 0, socket |-> c,
                list |-> getAllDownloads]
    /\ UNCHANGED <<activeDownloads, progressIntervals, torrents, nextId,
                   destroyCallbacks, disk, removed, fsFiles, request,
                   response, client,
                   pipe, tree, proc, supplied>>

\* socket.on('disconnect'): the socket is gone; the handler only logs
Disconnect(c) ==
    /\ c \in sockets
    /\ sockets' = sockets \ {c}
    /\ sent' = MapDelete(sent, c)
    /\ emitted' = <<>>
    /\ last' = [op |-> "disconnect", id |-> 0, code |-> 0, socket |-> c]
    /\ UNCHANGED <<activeDownloads, progressIntervals, torrents, nextId,
                   destroyCallbacks, disk, removed, fsFiles, request,
                   response, client,
                   pipe, tree, proc, supplied>>

NextSocket ==
    \/ Next
    \/ \E c \in Sockets : Connect(c)
    \/ \E c \in Sockets : Disconnect(c)

SpecSocket == Init /\ [][NextSocket]_vars

(***************************************************************************)
(* The browser client (src/unnamed/part_001) with the server: the page's   *)
(* socket, its GET /api/downloads request and its three handlers. Socket   *)
(* events reach the page in the order sent; the HTTP response travels on   *)
(* its own connection.                                                     *)
(***************************************************************************)
\* the session the page is watching
Watched == 1

\* initialize(): initializeSocket() opens the socket, loadDownloads() sends
\* GET /api/downloads
Initialize ==
    /\ client.page = "closed"
    /\ client' = [client EXCEPT !.page = "open",
                                !.pending = [state |-> "requested",
                                             list |-> <<>>]]
    /\ emitted' = <<>>
    /\ last' = [op |-> "initialize", id |-> 0, code |-> 0]
    /\ UNCHANGED <<activeDownloads, progressIntervals, torrents, nextId,
                   destroyCallbacks, disk, removed, fsFiles, request,
                   response, sockets, sent,
                   pipe, tree, proc, supplied>>

\* io.on('connection') for the page's socket: the downloads-list is sent
ClientConnect ==
    /\ client.page = "open"
    /\ ~client.connected
    /\ client' = [client EXCEPT
                     !.connected = TRUE,
                     !.inbox = @ \o <<Update("downloads-list",
                                             getAllDownloads)>>]
    /\ emitted' = <<>>
    /\ last' = [op |-> "connect", id |-> 0, code |-> 0, socket |-> 0,
                list |-> getAllDownloads]
    /\ UNCHANGED <<activeDownloads, progressIntervals, torrents, nextId,
                   destroyCallbacks, disk, removed, fsFiles, request,
                   response, sockets, sent,
                   pipe, tree, proc, supplied>>

\* GET /api/downloads: the server answers the page's request
GetDownloads ==
    /\ client.pending.state = "requested"
    /\ client' = [client EXCEPT !.pending = [state |-> "response",
                                             list |-> getAllDownloads]]
    /\ emitted' = <<>>
    /\ last' = [op |-> "getDownloads", id |-> 0, code |-> 200]
    /\ UNCHANGED <<activeDownloads, progressIntervals, torrents, nextId,
                   destroyCallbacks, disk, removed, fsFiles, request,
                   response, sockets, sent,
                   pipe, tree, proc, supplied>>

\* state.downloads after renderDownloads(downloadList): every download of
\* the list is set, nothing is removed
renderDownloads(downloads, downloadList) ==
    LET ids == {downloadList[i].id : i \in DOMAIN downloadList} IN
    [id \in DOMAIN downloads \cup ids |->
        IF id \in ids
        THEN downloadList[CHOOSE i \in DOMAIN downloadList :
                              downloadList[i].id = id]
        ELSE downloads[id]]

\* updateDownloadCount(): the number the badge is set to
updateDownloadCount(downloads) ==
    Cardinality({id \in DOMAIN downloads :
                    downloads[id].status = "downloading"})

\* the page after renderDownloads(downloadList): the list element is
\* emptied, which detaches every card a timeout still holds, the downloads
\* of the list are set and get a card each, the badge is updated
Rendered(page, downloadList) ==
    LET downloads == renderDownloads(page.downloads, downloadList) IN
    [page EXCEPT
        !.downloads = downloads,
        !.cards = {downloadList[i].id : i \in DOMAIN downloadList},
        !.timers = {[t EXCEPT !.attached = FALSE] : t \in @},
        !.count = updateDownloadCount(downloads)]

\* socket.on('downloads-list')
OnDownloadsList ==
    /\ client.inbox # <<>>
    /\ Head(client.inbox).event = "downloads-list"
    /\ client' = [Rendered(client, Head(client.inbox).data) EXCEPT
                     !.inbox = Tail(@)]
    /\ UNCHANGED <<activeDownloads, progressIntervals, torrents, nextId,
                   destroyCallbacks, disk, emitted, last, removed, fsFiles,
                   request, response, sockets, sent,
                   pipe, tree, proc, supplied>>

\* socket.on('download-update')
OnDownloadUpdate ==
    /\ client.inbox # <<>>
    /\ Head(client.inbox).event = "download-update"
    /\ LET download == Head(client.inbox).data IN
       \* renderDownload(download) updates the card of that id or appends
       \* a new one, then updateDownloadCount()
       client' = [client EXCEPT
                     !.inbox = Tail(@),
                     !.downloads = MapSet(@, download.id, download),
                     !.cards = @ \cup {download.id},
                     !.count = updateDownloadCount(
                                   MapSet(client.downloads, download.id,
                                          download))]
    /\ UNCHANGED <<activeDownloads, progressIntervals, torrents, nextId,
                   destroyCallbacks, disk, emitted, last, removed, fsFiles,
                   request, response, sockets, sent,
                   pipe, tree, proc, supplied>>

\* loadDownloads() after its await: the response of GET /api/downloads has
\* arrived
LoadDownloads ==
    /\ client.pending.state = "response"
    /\ client' = [Rendered(client, client.pending.list) EXCEPT
                     !.pending = NoPending]
    /\ UNCHANGED <<activeDownloads, progressIntervals, torrents, nextId,
                   destroyCallbacks, disk, emitted, last, removed, fsFiles,
                   request, response, sockets, sent,
                   pipe, tree, proc, supplied>>

\* the server with one session whose engine reports downloaded bytes that
\* never go down and raises no error, and the page
NextClient ==
    \/ nextId = Watched /\ PostDownload("magnet", FALSE)
    \/ OnMetadata(Watched)
    \/ \E d \in 0..MaxLength, s \in Samples :
          /\ Has(Watched)
          /\ d >= activeDownloads[Watched].downloaded
          /\ OnDownload(Watched, d, s)
    \/ OnDone(Watched)
    \/ Tick(Watched)
    \/ Initialize
    \/ ClientConnect
    \/ GetDownloads
    \/ OnDownloadsList
    \/ OnDownloadUpdate
    \/ LoadDownloads

SpecClient == Init /\ [][NextClient]_vars

(***************************************************************************)
(* GET /stream/* and GET /files/*                                          *)
(***************************************************************************)
\* length of a Range header value, counted in symbols
MaxHeaderLen == 4

\* JavaScript numbers as far as the range code needs them
Num(v) == [nan |-> FALSE, v |-> v]
NaN == [nan |-> TRUE, v |-> 0]

Digits == <<"0", "1", "2", "3", "4", "5", "6", "7", "8", "9">>
IsDigit(c) == \E i \in DOMAIN Digits : Digits[i] = c
DigitValue(c) == (CHOOSE i \in DOMAIN Digits : Digits[i] = c) - 1

RECURSIVE DigitPrefix(_, _, _)
\* the value of the longest prefix of digits; seen: a digit was read
DigitPrefix(s, acc, seen) ==
    IF s # <<>> /\ IsDigit(Head(s))
    THEN DigitPrefix(Tail(s), 10 * acc + DigitValue(Head(s)), TRUE)
    ELSE IF seen THEN Num(acc) ELSE NaN

RECURSIVE TrimStart(_)
TrimStart(s) == IF s # <<>> /\ Head(s) = " " THEN TrimStart(Tail(s)) ELSE s

\* parseInt(s, 10)
parseInt(s) ==
    LET t == TrimStart(s) IN
    IF t # <<>> /\ Head(t) = "+" THEN DigitPrefix(Tail(t), 0, FALSE)
    ELSE IF t # <<>> /\ Head(t) = "-"
    THEN LET n == DigitPrefix(Tail(t), 0, FALSE)
         IN IF n.nan THEN NaN ELSE Num(0 - n.v)
    ELSE DigitPrefix(t, 0, FALSE)

RECURSIVE IntToString(_)
\* the decimal digits of a non-negative integer
IntToString(n) ==
    IF n < 10 THEN <<Digits[n + 1]>>
    ELSE IntToString(n \div 10) \o <<Digits[(n % 10) + 1]>>

\* a number in a template literal
NumberToString(x) == IF x.nan THEN <<"N","a","N">> ELSE IntToString(x.v)

\* range.replace(/bytes=/, ''): the first "bytes=" is removed; the literal
\* "bytes=" is one symbol of a header value
ReplaceBytes(range) ==
    IF \A i \in DOMAIN range : range[i] # "bytes=" THEN range
    ELSE LET i == CHOOSE k \in DOMAIN range :
                     range[k] = "bytes=" /\ \A j \in 1..(k - 1) :
                                                range[j] # "bytes="
         IN SubSeq(range, 1, i - 1) \o SubSeq(range, i + 1, Len(range))

NoRange == <<"undefined">>

\* x >= y of two JavaScript numbers: false when either is NaN
GreaterEq(x, y) == ~x.nan /\ ~y.nan /\ x.v >= y.v

\* fs.createReadStream(path, {start, end}) throws ERR_OUT_OF_RANGE unless
\* start and end are integers >= 0 with start <= end
ReadStreamThrows(start, end) ==
    \/ start.nan \/ end.nan
    \/ start.v < 0 \/ end.v < 0
    \/ start.v > end.v

\* the bytes a read stream over [start, end] delivers
ReadRange(content, start, end) ==
    SubSeq(content, start + 1, IF end + 1 > Len(content) THEN Len(content)
                               ELSE end + 1)

\* end defaulting to fileSize instead of fileSize - 1
RangeEnd_OffByOne(parts, fileSize) ==
    IF Len(parts) >= 2 /\ parts[2] # <<>>
    THEN parseInt(parts[2]) ELSE Num(fileSize)

\* const end = parts[1] ? parseInt(parts[1], 10) : fileSize - 1
RangeEnd(parts, fileSize) ==
    IF Len(parts) >= 2 /\ parts[2] # <<>>
    THEN parseInt(parts[2]) ELSE Num(fileSize - 1)

\* start >= fileSize || end >= fileSize
RangeNotSatisfiable(start, end, fileSize) ==
    GreaterEq(start, Num(fileSize)) \/ GreaterEq(end, Num(fileSize))

\* the response of app.get('/stream/*') to the path req.params[0] and the
\* Range header range; of the headers, Content-Type and Cache-Control are
\* left out
StreamResponse(fs, param, range) ==
    LET filePath == decodeURIComponent(param) IN
    IF filePath = URIError
    THEN Response(500, FALSE, <<>>, NoHeaders, <<>>)
    ELSE
    LET fullPath == pathJoin(DOWNLOADS_DIR, filePath)
        normalizedPath == normalize(fullPath)
    IN
    IF ~StartsWith(normalizedPath, DOWNLOADS_DIR)
    THEN Response(400, FALSE, fullPath, NoHeaders, <<>>)
    ELSE IF ~existsSync(fs, fullPath)
    THEN Response(404, TRUE, fullPath, NoHeaders, <<>>)
    ELSE
    LET fileSize == statSize(fs, fullPath)
        content == IF fullPath \in DOMAIN fs THEN fs[fullPath] ELSE <<>>
    IN
    IF range # NoRange /\ range # <<>>
    THEN LET parts == Split(ReplaceBytes(range), "-")
             start == parseInt(parts[1])
             end == RangeEnd(parts, fileSize)
         IN IF RangeNotSatisfiable(start, end, fileSize)
            THEN Response(416, TRUE, fullPath, NoHeaders, <<>>)
            ELSE IF ReadStreamThrows(start, end)
            THEN \* the catch block
                 Response(500, TRUE, fullPath, NoHeaders, <<>>)
            ELSE Response(206, TRUE, fullPath,
                     [h \in {"Content-Range", "Accept-Ranges",
                             "Content-Length"} |->
                        CASE h = "Content-Range" ->
                               <<"b","y","t","e","s"," ">> \o
                               NumberToString(start) \o <<"-">> \o
                               NumberToString(end) \o <<"/">> \o
                               IntToString(fileSize)
                          [] h = "Accept-Ranges" -> <<"b","y","t","e","s">>
                          [] h = "Content-Length" ->
                               IntToString((end.v - start.v) + 1)],
                     ReadRange(content, start.v, end.v))
    ELSE Response(200, TRUE, fullPath,
             [h \in {"Accept-Ranges", "Content-Length"} |->
                CASE h = "Accept-Ranges" -> <<"b","y","t","e","s">>
                  [] h = "Content-Length" -> IntToString(fileSize)],
             content)

\* the response of app.get('/files/*')
FilesResponse(fs, param) ==
    LET filePath == decodeURIComponent(param) IN
    IF filePath = URIError
    THEN Response(500, FALSE, <<>>, NoHeaders, <<>>)
    ELSE
    LET fullPath == pathJoin(DOWNLOADS_DIR, filePath)
        normalizedPath == normalize(fullPath)
    IN
    IF ~StartsWith(normalizedPath, DOWNLOADS_DIR)
    THEN Response(400, FALSE, fullPath, NoHeaders, <<>>)
    ELSE IF ~existsSync(fs, fullPath)
    THEN Response(404, TRUE, fullPath, NoHeaders, <<>>)
    ELSE IF fullPath \in DOMAIN fs
    THEN Response(200, TRUE, fullPath,
             [h \in {"Content-Disposition"} |-> <<"a","t","t","a","c","h",
                                                  "m","e","n","t">>],
             fs[fullPath])
    ELSE \* res.sendFile of a directory passes on to the 404 handler
         Response(404, TRUE, fullPath, NoHeaders, <<>>)

\* the pending GET /stream request is handled
GetStream(param, range) ==
    /\ request = [op |-> "stream", param |-> param, range |-> range]
    /\ response = NoResponse
    /\ response' = StreamResponse(fsFiles, param, range)
    /\ pipe' = StartPipe(response')
    /\ UNCHANGED <<fsFiles, request, activeDownloads, progressIntervals,
                   torrents, nextId, destroyCallbacks, disk, emitted, last,
                   removed, sockets, sent, client, tree, proc, supplied>>

\* the pending GET /files request is handled
GetFiles(param) ==
    /\ request = [op |-> "files", param |-> param, range |-> NoRange]
    /\ response = NoResponse
    /\ response' = FilesResponse(fsFiles, param)
    /\ UNCHANGED <<fsFiles, request, activeDownloads, progressIntervals,
                   torrents, nextId, destroyCallbacks, disk, emitted, last,
                   removed, sockets, sent, client,
                   pipe, tree, proc, supplied>>

(***************************************************************************)
(* The file server: one request, of any path without a Range header or of  *)
(* the file in the downloads directory with any Range header, against a    *)
(* file of any size                                                        *)
(***************************************************************************)
\* the strings over alphabet of length at most n
Strings(alphabet, n) == UNION {[1..k -> alphabet] : k \in 0..n}

PathChars == {"/", ".", "d", "x"}

\* requested paths: every short path, and ../dx and /x percent-encoded
RequestedPaths ==
    Strings(PathChars, MaxPathLen)
    \cup { <<"%","2","E","%","2","E","%","2","F","d","x">>,
           <<"%","2","F","x">>, <<"%","2">> }

HeaderSymbols == {"bytes=", "0", "1", "2", "-", ",", "x"}

RangeHeaders == Strings(HeaderSymbols, MaxHeaderLen)

Requests ==
    {[op |-> op, param |-> param, range |-> NoRange] :
        op \in {"stream", "files"}, param \in RequestedPaths}
    \cup {[op |-> "stream", param |-> <<"x">>, range |-> range] :
             range \in RangeHeaders}

InitHttp ==
    /\ activeDownloads = EmptyMap
    /\ progressIntervals = {}
    /\ torrents = EmptyMap
    /\ nextId = 1
    /\ destroyCallbacks = {}
    /\ disk = {}
    /\ emitted = <<>>
    /\ last = [op |-> "init", id |-> 0, code |-> 0]
    /\ removed = {}
    /\ fsFiles \in {Disk(n) : n \in 0..MaxFileSize}
    /\ request \in Requests
    /\ response = NoResponse
    /\ sockets = {}
    /\ sent = EmptyMap
    /\ client = ClosedPage
    /\ pipe = NoPipe
    /\ tree = EmptyRoot
    /\ proc = Running
    /\ supplied = <<"a">>

NextHttp ==
    \/ GetStream(request.param, request.range)
    \/ GetFiles(request.param)

SpecHttp == InitHttp /\ [][NextHttp]_vars

(***************************************************************************)
(* GET /api/files: walkDirectory over the tree at DOWNLOADS_DIR, on a       *)
(* platform whose path.join separates with / (posix) or \ (win32)          *)
(***************************************************************************)
\* entries of one directory, at most
MaxEntries == 2

\* file names: a plain one, one with a space and a percent sign, and one
\* with a backslash, which only a posix file system allows in a name
Names == { <<"a">>, <<"b", " ", "%">>, <<"x", "\\">> }

\* the order in which readdirSync returns the names
NameOrder == << <<"a">>, <<"b", " ", "%">>, <<"x", "\\">> >>

Platforms == {"/", "\\"}

NamesOn(sep) ==
    IF sep = "\\"
    THEN {n \in Names : \A i \in DOMAIN n : n[i] # "\\"}
    ELSE Names

\* the entries a directory can have: nodes under at most MaxEntries names
Entries(names, nodes) ==
    UNION {[S -> nodes] :
              S \in {T \in SUBSET names : Cardinality(T) <= MaxEntries}}

\* what can be in a directory of the second level, of the first level, and
\* at DOWNLOADS_DIR itself
Level2 == {File(10), Broken}
Level1(sep) ==
    Level2 \cup {File(0), Dir(FALSE, EmptyMap)}
           \cup {Dir(TRUE, e) : e \in Entries(NamesOn(sep), Level2)}
Roots(sep) ==
    {Missing, Dir(FALSE, EmptyMap)}
    \cup {Dir(TRUE, e) : e \in Entries(NamesOn(sep), Level1(sep))}

Trees ==
    UNION {{[sep |-> sep, root |-> r] : r \in Roots(sep)} : sep \in Platforms}

\* path.join(basePath, item) for an item readdirSync returned (no separator
\* of the platform in it, not "." or ".."): path.win32.join separates with \
joinOn(sep, basePath, item) ==
    IF sep = "/" THEN pathJoin(basePath, item)
    ELSE IF basePath = <<>> THEN item
    ELSE basePath \o <<"\\">> \o item

RECURSIVE Replace5C(_)
\* .replace(/%5C/g, '/')
Replace5C(s) ==
    IF s = <<>> THEN <<>>
    ELSE IF Len(s) >= 3 /\ SubSeq(s, 1, 3) = <<"%", "5", "C">>
    THEN <<"/">> \o Replace5C(SubSeq(s, 4, Len(s)))
    ELSE <<Head(s)>> \o Replace5C(Tail(s))

FilesPrefix == <<"/", "f", "i", "l", "e", "s", "/">>

RECURSIVE walkDirectory(_, _, _)
RECURSIVE walkItems(_, _, _, _)
RECURSIVE walkItems_StopsAtError(_, _, _, _)

\* the loop of walkDirectory with the statSync error caught outside the
\* loop: the first entry that cannot be stat'ed ends the directory
walkItems_StopsAtError(sep, node, items, basePath) ==
    IF items = <<>> THEN <<>>
    ELSE LET item == Head(items)
             child == node.entries[item]
             relativePath == joinOn(sep, basePath, item)
         IN IF child.kind = "broken" THEN <<>>
            ELSE (IF child.kind = "dir"
                  THEN walkDirectory(sep, child, relativePath)
                  ELSE << [name |-> item,
                           path |-> relativePath,
                           size |-> child.size,
                           downloadUrl |->
                               FilesPrefix \o Replace5C(
                                   encodeURIComponent(relativePath))] >>)
                 \o walkItems_StopsAtError(sep, node, Tail(items), basePath)

\* the for loop of walkDirectory over the items not yet visited: statSync
\* fails on a broken entry, which is skipped
walkItems(sep, node, items, basePath) ==
    IF items = <<>> THEN <<>>
    ELSE LET item == Head(items)
             child == node.entries[item]
             relativePath == joinOn(sep, basePath, item)
         IN (IF child.kind = "broken" THEN <<>>
             ELSE IF child.kind = "dir"
             THEN walkDirectory(sep, child, relativePath)
             ELSE << [name |-> item,
                      path |-> relativePath,
                      size |-> child.size,
                      downloadUrl |->
                          FilesPrefix \o Replace5C(
                              encodeURIComponent(relativePath))] >>)
            \o walkItems(sep, node, Tail(items), basePath)

\* walkDirectory(dir, basePath), node being what is at dir: readdirSync
\* fails on what is not a readable directory and nothing is listed
walkDirectory(sep, node, basePath) ==
    IF node.kind # "dir" \/ ~node.readable THEN <<>>
    ELSE walkItems(sep, node,
                   SelectSeq(NameOrder,
                             LAMBDA n : n \in DOMAIN node.entries),
                   basePath)

ListRequest == [op |-> "list", param |-> <<>>, range |-> NoRange]

\* app.get('/api/files')
GetApiFiles ==
    /\ request = ListRequest
    /\ response = NoResponse
    /\ response' =
          Response(200, TRUE, DOWNLOADS_DIR, NoHeaders,
                   IF tree.root.kind # "missing"
                   THEN walkDirectory(tree.sep, tree.root, <<>>)
                   ELSE <<>>)
    /\ UNCHANGED <<activeDownloads, progressIntervals, torrents, nextId,
                   destroyCallbacks, disk, emitted, last, removed, fsFiles,
                   request, sockets, sent, client, pipe, tree, proc, supplied>>

InitWalk ==
    /\ activeDownloads = EmptyMap
    /\ progressIntervals = {}
    /\ torrents = EmptyMap
    /\ nextId = 1
    /\ destroyCallbacks = {}
    /\ disk = {}
    /\ emitted = <<>>
    /\ last = [op |-> "init", id |-> 0, code |-> 0]
    /\ removed = {}
    /\ fsFiles = Disk(MaxFileSize)
    /\ request = ListRequest
    /\ response = NoResponse
    /\ sockets = {}
    /\ sent = EmptyMap
    /\ client = ClosedPage
    /\ pipe = NoPipe
    /\ tree \in Trees
    /\ proc = Running
    /\ supplied = <<"a">>

NextWalk == GetApiFiles

SpecWalk == InitWalk /\ [][NextWalk]_vars

(***************************************************************************)
(* GET /stream after its headers: stream.pipe(res). The pipe writes every  *)
(* chunk read to the response and ends the response when the read stream   *)
(* ends; when the read stream fails, the pipe only unpipes and leaves the  *)
(* response to the 'error' handler of the route.                           *)
(***************************************************************************)
\* a 'data' event: one more byte is written to the response
ReadChunk ==
    /\ pipe.stream = "reading"
    /\ pipe.res = "open"
    /\ pipe.written < pipe.total
    /\ pipe' = [pipe EXCEPT !.written = @ + 1]
    /\ UNCHANGED <<activeDownloads, progressIntervals, torrents, nextId,
                   destroyCallbacks, disk, emitted, last, removed, fsFiles,
                   request, response, sockets, sent, client, tree, proc,
                   supplied>>

\* the 'end' event: the pipe calls res.end()
ReadEnd ==
    /\ pipe.stream = "reading"
    /\ pipe.res = "open"
    /\ pipe.written = pipe.total
    /\ pipe' = [pipe EXCEPT !.stream = "ended", !.res = "ended"]
    /\ UNCHANGED <<activeDownloads, progressIntervals, torrents, nextId,
                   destroyCallbacks, disk, emitted, last, removed, fsFiles,
                   request, response, sockets, sent, client, tree, proc,
                   supplied>>

\* res.headersSent once the route has called res.writeHead
headersSent(p) == p.res # "none"

\* the 'error' handler answering whether or not the headers are sent
ReadError_AnswersAnyway ==
    /\ pipe.stream = "reading"
    /\ pipe.res = "open"
    /\ response' = Response(500, response.touched, response.path,
                            NoHeaders, <<>>)
    /\ pipe' = [pipe EXCEPT !.stream = "errored", !.res = "ended"]
    /\ UNCHANGED <<activeDownloads, progressIntervals, torrents, nextId,
                   destroyCallbacks, disk, emitted, last, removed, fsFiles,
                   request, sockets, sent, client, tree, proc,
                   supplied>>

\* stream.on('error'): the read fails (the file was deleted or cannot be
\* read any more); the handler logs and, unless the headers are sent
\* already, answers 500 with a JSON body
ReadError ==
    /\ pipe.stream = "reading"
    /\ pipe.res = "open"
    /\ IF ~headersSent(pipe)
       THEN /\ response' = Response(500, response.touched, response.path,
                                    NoHeaders, <<>>)
            /\ pipe' = [pipe EXCEPT !.stream = "errored", !.res = "ended"]
       ELSE /\ response' = response
            /\ pipe' = [pipe EXCEPT !.stream = "errored"]
    /\ UNCHANGED <<activeDownloads, progressIntervals, torrents, nextId,
                   destroyCallbacks, disk, emitted, last, removed, fsFiles,
                   request, sockets, sent, client, tree, proc,
                   supplied>>

\* the client closes the connection while the response is open
ClientClose ==
    /\ pipe.res = "open"
    /\ pipe' = [pipe EXCEPT
                   !.stream = IF @ = "reading" THEN "closed" ELSE @,
                   !.res = "aborted"]
    /\ UNCHANGED <<activeDownloads, progressIntervals, torrents, nextId,
                   destroyCallbacks, disk, emitted, last, removed, fsFiles,
                   request, response, sockets, sent, client, tree, proc,
                   supplied>>

\* the Range header values bytes=s-e and bytes=s-
ClosedRange(s, e) ==
    <<"bytes=">> \o IntToString(s) \o <<"-">> \o IntToString(e)
OpenRange(s) == <<"bytes=">> \o IntToString(s) \o <<"-">>

\* requests for the file in the downloads directory: without a Range header
\* and with the ranges s-e and s- over the positions of the file and the
\* one past its largest size
StreamRequests ==
    {[op |-> "stream", param |-> <<"x">>, range |-> range] :
        range \in {NoRange}
                  \cup {OpenRange(s) : s \in 0..MaxFileSize}
                  \cup {ClosedRange(s, e) : s, e \in 0..MaxFileSize}}

InitStream ==
    /\ activeDownloads = EmptyMap
    /\ progressIntervals = {}
    /\ torrents = EmptyMap
    /\ nextId = 1
    /\ destroyCallbacks = {}
    /\ disk = {}
    /\ emitted = <<>>
    /\ last = [op |-> "init", id |-> 0, code |-> 0]
    /\ removed = {}
    /\ fsFiles \in {Disk(n) : n \in 0..MaxFileSize}
    /\ request \in StreamRequests
    /\ response = NoResponse
    /\ sockets = {}
    /\ sent = EmptyMap
    /\ client = ClosedPage
    /\ pipe = NoPipe
    /\ tree = EmptyRoot
    /\ proc = Running
    /\ supplied = <<"a">>

NextStream ==
    \/ GetStream(request.param, request.range)
    \/ ReadChunk
    \/ ReadEnd
    \/ ReadError
    \/ ClientClose

SpecStream == InitStream /\ [][NextStream]_vars

\* an open read stream is read for as long as that is possible, and its end
\* is seen; neither a read error nor the client's closing is bound to happen
SpecStreamFair ==
    /\ SpecStream
    /\ WF_vars(ReadChunk)
    /\ WF_vars(ReadEnd)

(***************************************************************************)
(* gracefulShutdown and the exit of the process. The engine client calls   *)
(* back when its teardown is done and the listener when its last           *)
(* connection has ended; either may never happen. Requests and timers are  *)
(* served for as long as the process runs.                                 *)
(***************************************************************************)
\* calls of gracefulShutdown (SIGINT, SIGTERM and uncaughtException may each
\* arrive, and more than once), at most
MaxSignals == 2

\* a stage of the shutdown is reached; steps keeps the first time only
Reached(steps, step) ==
    IF \E i \in DOMAIN steps : steps[i] = step THEN steps
    ELSE Append(steps, step)

\* torrentClient.destroy: every torrent of the client is destroyed
DestroyAll(ts) == [id \in DOMAIN ts |-> [ts[id] EXCEPT !.destroyed = TRUE]]

\* gracefulShutdown without its setTimeout: no forced exit is armed
GracefulShutdown_NoTimeout ==
    /\ ~proc.exited
    /\ proc.calls < MaxSignals
    /\ progressIntervals' = {}
    /\ torrents' = DestroyAll(torrents)
    /\ proc' = [proc EXCEPT
                   !.started = TRUE,
                   !.calls = @ + 1,
                   !.steps = Reached(@, "timers"),
                   !.engine = IF @ = "up" THEN "destroying" ELSE @,
                   !.destroying = @ + 1]
    /\ emitted' = <<>>
    /\ last' = [op |-> "shutdown", id |-> 0, code |-> 0]
    /\ UNCHANGED <<activeDownloads, nextId, destroyCallbacks, disk, removed,
                   fsFiles, request, response, sockets, sent, client,
                   pipe, tree, supplied>>

\* gracefulShutdown(): every interval is cleared and the map emptied, the
\* engine client is asked to destroy itself, the forced exit is armed
GracefulShutdown ==
    /\ ~proc.exited
    /\ proc.calls < MaxSignals
    /\ progressIntervals' = {}
    /\ torrents' = DestroyAll(torrents)
    /\ proc' = [proc EXCEPT
                   !.started = TRUE,
                   !.calls = @ + 1,
                   !.steps = Reached(@, "timers"),
                   !.engine = IF @ = "up" THEN "destroying" ELSE @,
                   !.destroying = @ + 1,
                   !.timeouts = @ + 1]
    /\ emitted' = <<>>
    /\ last' = [op |-> "shutdown", id |-> 0, code |-> 0]
    /\ UNCHANGED <<activeDownloads, nextId, destroyCallbacks, disk, removed,
                   fsFiles, request, response, sockets, sent, client,
                   pipe, tree, supplied>>

\* the callback of torrentClient.destroy: the engine is torn down, the
\* listener is told to close
EngineDestroyed ==
    /\ ~proc.exited
    /\ proc.destroying > 0
    /\ proc' = [proc EXCEPT
                   !.destroying = @ - 1,
                   !.engine = "destroyed",
                   !.steps = Reached(@, "engine"),
                   !.listener = IF @ = "listening" THEN "closing" ELSE @,
                   !.closing = @ + 1]
    /\ emitted' = <<>>
    /\ last' = [op |-> "engineDestroyed", id |-> 0, code |-> 0]
    /\ UNCHANGED <<activeDownloads, progressIntervals, torrents, nextId,
                   destroyCallbacks, disk, removed, fsFiles, request,
                   response, sockets, sent, client, pipe, tree, supplied>>

\* the callback of server.close: the last connection has ended and the
\* listener is closed; process.exit(0)
ServerClosed ==
    /\ ~proc.exited
    /\ proc.closing > 0
    /\ proc' = [proc EXCEPT
                   !.closing = 0,
                   !.listener = "closed",
                   !.steps = Reached(@, "listener"),
                   !.exited = TRUE,
                   !.code = 0]
    /\ emitted' = <<>>
    /\ last' = [op |-> "closed", id |-> 0, code |-> 0]
    /\ UNCHANGED <<activeDownloads, progressIntervals, torrents, nextId,
                   destroyCallbacks, disk, removed, fsFiles, request,
                   response, sockets, sent, client, pipe, tree, supplied>>

\* the callback of the setTimeout of gracefulShutdown: process.exit(1)
HardTimeout ==
    /\ ~proc.exited
    /\ proc.timeouts > 0
    /\ proc' = [proc EXCEPT !.exited = TRUE, !.code = 1]
    /\ emitted' = <<>>
    /\ last' = [op |-> "timeout", id |-> 0, code |-> 0]
    /\ UNCHANGED <<activeDownloads, progressIntervals, torrents, nextId,
                   destroyCallbacks, disk, removed, fsFiles, request,
                   response, sockets, sent, client, pipe, tree, supplied>>

\* the server until its exit: new downloads, their ticks and their
\* completion, and the shutdown
NextShutdown ==
    \/ /\ ~proc.exited
       /\ \/ \E addThrows \in BOOLEAN : PostDownload("magnet", addThrows)
          \/ \E id \in Ids : Tick(id)
          \/ \E id \in Ids : OnDone(id)
    \/ GracefulShutdown
    \/ EngineDestroyed
    \/ ServerClosed
    \/ HardTimeout

SpecShutdown == Init /\ [][NextShutdown]_vars

\* a timer that is armed fires: the event loop runs the callback of
\* setTimeout once its 10 seconds are over
SpecShutdownFair ==
    /\ SpecShutdown
    /\ WF_vars(HardTimeout)

(***************************************************************************)
(* Removal with files, for the names an engine may report: the torrent's   *)
(* name comes from the metadata of the torrent, which its publisher wrote. *)
(***************************************************************************)
\* names reported with the metadata: a plain one, the empty one, ".", "..",
\* one with a separator inside, one that climbs out and back in beside the
\* root
TorrentNames ==
    {<<"a">>, <<>>, <<".">>, <<".", ".">>, <<"a", "/", "b">>,
     <<".", ".", "/", "d", "x">>}

InitRemove ==
    /\ activeDownloads = EmptyMap
    /\ progressIntervals = {}
    /\ torrents = EmptyMap
    /\ nextId = 1
    /\ destroyCallbacks = {}
    /\ disk = {}
    /\ emitted = <<>>
    /\ last = [op |-> "init", id |-> 0, code |-> 0]
    /\ removed = {}
    /\ fsFiles = Disk(MaxFileSize)
    /\ request = NoRequest
    /\ response = NoResponse
    /\ sockets = {}
    /\ sent = EmptyMap
    /\ client = ClosedPage
    /\ pipe = NoPipe
    /\ tree = EmptyRoot
    /\ proc = Running
    /\ supplied \in TorrentNames

NextRemove ==
    \/ PostDownload("magnet", FALSE)
    \/ \E id \in Ids : OnMetadata(id)
    \/ \E id \in Ids, d \in 0..MaxLength, s \in Samples : OnDownload(id, d, s)
    \/ \E id \in Ids, t \in BOOLEAN : DeleteDownloadFiles(id, t)
    \/ \E cb \in destroyCallbacks : DestroyCallback(cb)

SpecRemove == InitRemove /\ [][NextRemove]_vars

(***************************************************************************)
(* The session manager with its readers: GET /api/downloads, GET           *)
(* /api/files, GET /api/health and the connection of a socket              *)
(***************************************************************************)
\* GET /api/downloads that also forgets the sessions that are over
GetApiDownloads_DropsFinished ==
    /\ activeDownloads' =
          [id \in {i \in DOMAIN activeDownloads :
                      activeDownloads[i].status = "downloading"} |->
              activeDownloads[id]]
    /\ emitted' = <<>>
    /\ last' = [op |-> "getDownloads", id |-> 0, code |-> 200,
                list |-> getAllDownloads]
    /\ UNCHANGED <<progressIntervals, torrents, nextId,
                   destroyCallbacks, disk, removed, fsFiles, request,
                   response, sockets, sent, client, pipe, tree, proc,
                   supplied>>

\* app.get('/api/downloads'); last.list is the array sent
GetApiDownloads ==
    /\ emitted' = <<>>
    /\ last' = [op |-> "getDownloads", id |-> 0, code |-> 200,
                list |-> getAllDownloads]
    /\ UNCHANGED <<activeDownloads, progressIntervals, torrents, nextId,
                   destroyCallbacks, disk, removed, fsFiles, request,
                   response, sockets, sent, client, pipe, tree, proc,
                   supplied>>

\* app.get('/api/health'): status healthy; the uptime and the timestamp
\* sent with it are the clock's
GetApiHealth ==
    /\ emitted' = <<>>
    /\ last' = [op |-> "health", id |-> 0, code |-> 200,
                status |-> "healthy"]
    /\ UNCHANGED <<activeDownloads, progressIntervals, torrents, nextId,
                   destroyCallbacks, disk, removed, fsFiles, request,
                   response, sockets, sent, client, pipe, tree, proc,
                   supplied>>

\* the socket that connects and disconnects
Reader == 1

InitReads ==
    /\ activeDownloads = EmptyMap
    /\ progressIntervals = {}
    /\ torrents = EmptyMap
    /\ nextId = 1
    /\ destroyCallbacks = {}
    /\ disk = {}
    /\ emitted = <<>>
    /\ last = [op |-> "init", id |-> 0, code |-> 0]
    /\ removed = {}
    /\ fsFiles = Disk(MaxFileSize)
    /\ request = ListRequest
    /\ response = NoResponse
    /\ sockets = {}
    /\ sent = EmptyMap
    /\ client = ClosedPage
    /\ pipe = NoPipe
    /\ tree = EmptyRoot
    /\ proc = Running
    /\ supplied = <<"a">>

NextReads ==
    \/ Next
    \/ GetApiDownloads
    \/ GetApiFiles
    \/ GetApiHealth
    \/ Connect(Reader)
    \/ Disconnect(Reader)

SpecReads == InitReads /\ [][NextReads]_vars

(***************************************************************************)
(* The earlier server (src/server.js). Its POST handler keeps the interval *)
(* of a session in a local constant, progressInterval, which the done and  *)
(* error handlers of that session close over; progressIntervals stands     *)
(* here for the ids whose interval is scheduled. Its snapshots are the     *)
(* entry spread into a new object with the id and without the torrent.     *)
(***************************************************************************)
\* { id: downloadId, ...download, torrent: undefined } as JSON
SpreadDownload(id, download) ==
    [f \in (DOMAIN download \ {"torrent"}) \cup {"id"} |->
        IF f = "id" THEN id ELSE download[f]]

\* the entry the POST handler stores: no error field
EarlyEntry(torrent) ==
    [torrent |-> torrent,
     name |-> LoadingName,
     progress |-> 0,
     downloadSpeed |-> 0,
     uploadSpeed |-> 0,
     peers |-> 0,
     status |-> "downloading",
     files |-> <<>>,
     size |-> 0,
     downloaded |-> 0]

\* a record with one more field, or that field set anew
WithField(r, name, v) ==
    [f \in DOMAIN r \cup {name} |-> IF f = name THEN v ELSE r[f]]

EarlyMagnetPrefix == <<"m","a","g","n","e","t",":">>

\* app.post('/api/download'): a magnetLink that is truthy and no string has
\* no startsWith, the TypeError is thrown outside the try and the default
\* error handler answers 500
PostDownloadEarly(body, addThrows) ==
    /\ nextId <= MaxIds
    /\ LET magnetLink == Bodies[body]
           answer(code, id) == [op |-> "post", id |-> id, code |-> code,
                                body |-> body, addThrows |-> addThrows]
       IN
       IF Falsy(magnetLink)
       THEN /\ last' = answer(400, 0)
            /\ UNCHANGED <<activeDownloads, progressIntervals, torrents,
                           nextId>>
       ELSE IF magnetLink.type # "string"
       THEN /\ last' = answer(500, 0)
            /\ UNCHANGED <<activeDownloads, progressIntervals, torrents,
                           nextId>>
       ELSE IF ~StartsWith(magnetLink.value, EarlyMagnetPrefix)
       THEN /\ last' = answer(400, 0)
            /\ UNCHANGED <<activeDownloads, progressIntervals, torrents,
                           nextId>>
       ELSE IF addThrows
       THEN /\ last' = answer(500, 0)
            /\ UNCHANGED <<activeDownloads, progressIntervals, torrents,
                           nextId>>
       ELSE LET downloadId == nextId IN
            /\ torrents' = MapSet(torrents, downloadId, NewTorrent)
            /\ activeDownloads' =
                   MapSet(activeDownloads, downloadId, EarlyEntry(downloadId))
            /\ progressIntervals' = progressIntervals \cup {downloadId}
            /\ nextId' = nextId + 1
            /\ last' = answer(200, downloadId)
    /\ emitted' = <<>>
    /\ UNCHANGED <<destroyCallbacks, disk, removed, fsFiles, request,
                   response, sockets, sent, client, pipe, tree, proc,
                   supplied>>

\* torrent.on('metadata')
OnMetadataEarly(downloadId) ==
    /\ downloadId \in DOMAIN torrents
    /\ LET torrent == WithMetadata(torrents[downloadId]) IN
       /\ torrents' = [torrents EXCEPT ![downloadId] = torrent]
       /\ IF ~Has(downloadId)
          THEN /\ emitted' = <<>>
               /\ UNCHANGED activeDownloads
          ELSE LET download ==
                     [activeDownloads[downloadId] EXCEPT
                        !.name = torrent.name,
                        !.size = torrent.length,
                        !.files = [i \in DOMAIN torrent.files |->
                                     [name |-> torrent.files[i].name,
                                      size |-> torrent.files[i].length,
                                      path |-> torrent.files[i].path]]]
               IN /\ activeDownloads' =
                        [activeDownloads EXCEPT ![downloadId] = download]
                  /\ emitted' = << Update("download-update",
                                     SpreadDownload(downloadId, download)) >>
    /\ last' = [op |-> "metadata", id |-> downloadId, code |-> 0]
    /\ UNCHANGED <<progressIntervals, nextId, destroyCallbacks, disk, removed,
                   fsFiles, request, response, sockets, sent, client,
                   pipe, tree, proc, supplied>>

\* torrent.on('download')
OnDownloadEarly(downloadId, d, s) ==
    /\ downloadId \in DOMAIN torrents
    /\ d <= torrents[downloadId].length
    /\ LET torrent == Reading(torrents[downloadId], d, s) IN
       /\ disk' = IF d > 0 /\ ~torrent.destroyed
                  THEN disk \cup {pathJoin(DOWNLOADS_DIR, torrent.name)}
                  ELSE disk
       /\ IF ~Has(downloadId)
          THEN UNCHANGED activeDownloads
          ELSE activeDownloads' =
                 [activeDownloads EXCEPT ![downloadId] =
                    [@ EXCEPT !.progress = RoundedProgress(torrent),
                              !.downloadSpeed = torrent.downloadSpeed,
                              !.uploadSpeed = torrent.uploadSpeed,
                              !.peers = torrent.numPeers,
                              !.downloaded = torrent.downloaded]]
    /\ emitted' = <<>>
    /\ last' = [op |-> "download", id |-> downloadId, code |-> 0]
    /\ UNCHANGED <<progressIntervals, torrents, nextId, destroyCallbacks,
                   removed, fsFiles, request, response, sockets, sent,
                   client, pipe, tree, proc, supplied>>

\* the setInterval callback: the ten fields of the entry, with the id
TickEarly(downloadId) ==
    /\ downloadId \in progressIntervals
    /\ emitted' =
         IF Has(downloadId)
            /\ activeDownloads[downloadId].status = "downloading"
         THEN << Update("download-update",
                   [f \in DOMAIN EarlyEntry(0) \ {"torrent"} |->
                       activeDownloads[downloadId][f]]
                   @@ [id |-> downloadId]) >>
         ELSE <<>>
    /\ last' = [op |-> "tick", id |-> downloadId, code |-> 0]
    /\ UNCHANGED <<activeDownloads, progressIntervals, torrents, nextId,
                   destroyCallbacks, disk, removed, fsFiles, request,
                   response, sockets, sent, client, pipe, tree, proc,
                   supplied>>

\* torrent.on('done'): clearInterval(progressInterval)
OnDoneEarly(downloadId) ==
    /\ downloadId \in DOMAIN torrents
    /\ progressIntervals' = progressIntervals \ {downloadId}
    /\ IF ~Has(downloadId)
       THEN /\ emitted' = <<>>
            /\ UNCHANGED activeDownloads
       ELSE LET torrent == torrents[downloadId]
                download ==
                  [activeDownloads[downloadId] EXCEPT
                     !.status = "completed",
                     !.progress = 100,
                     !.files = [i \in DOMAIN torrent.files |->
                                  [name |-> torrent.files[i].name,
                                   size |-> torrent.files[i].length,
                                   path |-> torrent.files[i].path,
                                   downloadUrl |->
                                     FilesPrefix \o
                                     encodeURIComponent(
                                         torrent.files[i].path)]]]
            IN /\ activeDownloads' =
                     [activeDownloads EXCEPT ![downloadId] = download]
               /\ emitted' = << Update("download-update",
                                  SpreadDownload(downloadId, download)) >>
    /\ last' = [op |-> "done", id |-> downloadId, code |-> 0]
    /\ UNCHANGED <<torrents, nextId, destroyCallbacks, disk, removed,
                   fsFiles, request, response, sockets, sent, client,
                   pipe, tree, proc, supplied>>

\* torrent.on('error'): clearInterval(progressInterval)
OnErrorEarly(downloadId) ==
    /\ downloadId \in DOMAIN torrents
    /\ progressIntervals' = progressIntervals \ {downloadId}
    /\ IF ~Has(downloadId)
       THEN /\ emitted' = <<>>
            /\ UNCHANGED activeDownloads
       ELSE LET download ==
                  WithField([activeDownloads[downloadId] EXCEPT
                                !.status = "error"],
                            "error", ErrMessage)
            IN /\ activeDownloads' =
                     [activeDownloads EXCEPT ![downloadId] = download]
               /\ emitted' = << Update("download-update",
                                  SpreadDownload(downloadId, download)) >>
    /\ last' = [op |-> "error", id |-> downloadId, code |-> 0]
    /\ UNCHANGED <<torrents, nextId, destroyCallbacks, disk, removed,
                   fsFiles, request, response, sockets, sent, client,
                   pipe, tree, proc, supplied>>

\* app.delete('/api/download/:id'): the torrent is destroyed and the entry
\* deleted; the handler has no access to the interval
DeleteDownloadEarly(id, destroyThrows) ==
    /\ IF ~Has(id)
       THEN /\ last' = [op |-> "delete", id |-> id, code |-> 404]
            /\ UNCHANGED <<activeDownloads, torrents, removed>>
       ELSE IF destroyThrows
       THEN /\ last' = [op |-> "delete", id |-> id, code |-> 500]
            /\ UNCHANGED <<activeDownloads, torrents, removed>>
       ELSE /\ torrents' = [torrents EXCEPT
                  ![activeDownloads[id].torrent].destroyed = TRUE]
            /\ activeDownloads' = MapDelete(activeDownloads, id)
            /\ removed' = removed \cup {id}
            /\ last' = [op |-> "delete", id |-> id, code |-> 200]
    /\ emitted' = <<>>
    /\ UNCHANGED <<progressIntervals, nextId, destroyCallbacks, disk,
                   fsFiles, request, response, sockets, sent, client,
                   pipe, tree, proc, supplied>>

\* app.delete('/api/download/:id/files')
DeleteDownloadFilesEarly(id, destroyThrows) ==
    /\ IF ~Has(id)
       THEN /\ last' = [op |-> "deleteFiles", id |-> id, code |-> 404]
            /\ UNCHANGED <<activeDownloads, torrents, removed,
                           destroyCallbacks>>
       ELSE IF destroyThrows
       THEN /\ last' = [op |-> "deleteFiles", id |-> id, code |-> 500]
            /\ UNCHANGED <<activeDownloads, torrents, removed,
                           destroyCallbacks>>
       ELSE /\ destroyCallbacks' = destroyCallbacks \cup
                  {[id |-> id,
                    torrentPath |->
                       pathJoin(DOWNLOADS_DIR, activeDownloads[id].name)]}
            /\ torrents' = [torrents EXCEPT
                  ![activeDownloads[id].torrent].destroyed = TRUE]
            /\ activeDownloads' = MapDelete(activeDownloads, id)
            /\ removed' = removed \cup {id}
            /\ last' = [op |-> "deleteFiles", id |-> id, code |-> 200]
    /\ emitted' = <<>>
    /\ UNCHANGED <<progressIntervals, nextId, disk,
                   fsFiles, request, response, sockets, sent, client,
                   pipe, tree, proc, supplied>>

\* the callback given to torrent.destroy
DestroyCallbackEarly(cb) ==
    /\ cb \in destroyCallbacks
    /\ destroyCallbacks' = destroyCallbacks \ {cb}
    /\ disk' = IF PathExists(disk, cb.torrentPath)
               THEN rmSync(disk, cb.torrentPath) ELSE disk
    /\ emitted' = <<>>
    /\ last' = [op |-> "destroyed", id |-> cb.id, code |-> 0,
                path |-> cb.torrentPath,
                deleted |-> PathExists(disk, cb.torrentPath)]
    /\ UNCHANGED <<activeDownloads, progressIntervals, torrents, nextId,
                   removed, fsFiles, request, response, sockets, sent,
                   client, pipe, tree, proc, supplied>>

\* the bodies posted to the earlier server
EarlyBodies == {"magnet", "http", "number", "missing"}

NextEarly ==
    \/ \E m \in EarlyBodies, addThrows \in BOOLEAN :
          PostDownloadEarly(m, addThrows)
    \/ \E id \in Ids : OnMetadataEarly(id)
    \/ \E id \in Ids, d \in 0..MaxLength, s \in Samples :
          OnDownloadEarly(id, d, s)
    \/ \E id \in Ids : OnDoneEarly(id)
    \/ \E id \in Ids : OnErrorEarly(id)
    \/ \E id \in Ids : TickEarly(id)
    \/ \E id \in Ids, t \in BOOLEAN : DeleteDownloadEarly(id, t)
    \/ \E id \in Ids, t \in BOOLEAN : DeleteDownloadFilesEarly(id, t)
    \/ \E cb \in destroyCallbacks : DestroyCallbackEarly(cb)

SpecEarly == Init /\ [][NextEarly]_vars

(***************************************************************************)
(* The browser client removing a session: removeDownload of part_001, the  *)
(* DELETE it sends, and another client's DELETE. The answer to the page's  *)
(* DELETE is the last step of the server until the page has taken it.      *)
(***************************************************************************)
\* the user presses Remove on the card of session id: removeDownload(id) up
\* to its await, once for an id and one call at a time
RemoveDownload(id) ==
    /\ client.page = "open"
    /\ id \in client.cards
    /\ id \notin client.asked
    /\ client.removal = NoRemoval
    /\ client' = [client EXCEPT
                     !.removal = [state |-> "requested", id |-> id],
                     !.asked = @ \cup {id}]
    /\ UNCHANGED <<activeDownloads, progressIntervals, torrents, nextId,
                   destroyCallbacks, disk, emitted, last, removed, fsFiles,
                   request, response, sockets, sent,
                   pipe, tree, proc, supplied>>

\* the server has answered the page's DELETE and the page has not taken
\* the answer yet
Answered ==
    /\ client.removal.state = "requested"
    /\ last.op = "deleteFiles"
    /\ last.id = client.removal.id

\* the server handles the page's DELETE /api/download/:id/files
ServeRemoval(destroyThrows) ==
    /\ client.removal.state = "requested"
    /\ ~Answered
    /\ DeleteDownloadFiles(client.removal.id, destroyThrows)

\* removeDownload after its await: apiRequest returned, the entry is
\* deleted and the card, if there is one, is handed to a timeout; or
\* apiRequest threw and the catch block shows a toast
RemoveDownloadResumes ==
    /\ Answered
    /\ LET id == client.removal.id IN
       client' = IF last.code = 200
                 THEN [client EXCEPT
                          !.removal = NoRemoval,
                          !.downloads = MapDelete(@, id),
                          !.timers = IF id \in client.cards
                                     THEN @ \cup {[id |-> id,
                                                   attached |-> TRUE]}
                                     ELSE @,
                          !.gone = @ \cup {id}]
                 ELSE [client EXCEPT !.removal = NoRemoval]
    /\ UNCHANGED <<activeDownloads, progressIntervals, torrents, nextId,
                   destroyCallbacks, disk, emitted, last, removed, fsFiles,
                   request, response, sockets, sent,
                   pipe, tree, proc, supplied>>

\* the timeout of removeDownload: card.remove(), which takes a card out of
\* the list only if it is still in it, then updateDownloadCount()
CardTimeout(t) ==
    /\ t \in client.timers
    /\ client' = [client EXCEPT
                     !.timers = @ \ {t},
                     !.cards = IF t.attached THEN @ \ {t.id} ELSE @,
                     !.count = updateDownloadCount(client.downloads)]
    /\ UNCHANGED <<activeDownloads, progressIntervals, torrents, nextId,
                   destroyCallbacks, disk, emitted, last, removed, fsFiles,
                   request, response, sockets, sent,
                   pipe, tree, proc, supplied>>

\* the server with one session, the page, and another client that removes
\* the session with DELETE /api/download/:id
NextPage ==
    \/ ~Answered /\ nextId = Watched /\ PostDownload("magnet", FALSE)
    \/ ~Answered /\ OnMetadata(Watched)
    \/ \E d \in 0..MaxLength, s \in Samples :
          /\ ~Answered
          /\ Has(Watched)
          /\ d >= activeDownloads[Watched].downloaded
          /\ OnDownload(Watched, d, s)
    \/ ~Answered /\ OnDone(Watched)
    \/ ~Answered /\ Tick(Watched)
    \/ \E t \in BOOLEAN : ServeRemoval(t)
    \/ ~Answered /\ DeleteDownload(Watched, FALSE)
    \/ \E cb \in destroyCallbacks : ~Answered /\ DestroyCallback(cb)
    \/ ~Answered /\ ClientConnect
    \/ ~Answered /\ GetDownloads
    \/ Initialize
    \/ OnDownloadsList
    \/ OnDownloadUpdate
    \/ LoadDownloads
    \/ RemoveDownload(Watched)
    \/ RemoveDownloadResumes
    \/ \E t \in client.timers : CardTimeout(t)

SpecPage == Init /\ [][NextPage]_vars

(***************************************************************************)
(* From the listing to the download: the browser requests the downloadUrl  *)
(* of a listed file and the /files route handles it, on a platform whose   *)
(* separator is /. response.path is the fullPath the handler computed.     *)
(***************************************************************************)
\* req.params[0] of the route /files/* for a URL: the router takes what
\* follows /files/ and decodes it with decodeURIComponent
RouteParam(url) ==
    decodeURIComponent(SubSeq(url, Len(FilesPrefix) + 1, Len(url)))

\* the browser follows the download link of the i-th listed file
FollowDownloadUrl(i) ==
    /\ request = ListRequest
    /\ response # NoResponse
    /\ i \in DOMAIN response.body
    /\ RouteParam(response.body[i].downloadUrl) # URIError
    /\ request' = [op |-> "files",
                   param |-> RouteParam(response.body[i].downloadUrl),
                   range |-> NoRange]
    /\ response' = NoResponse
    /\ last' = [op |-> "follow", id |-> i, code |-> 0,
                file |-> response.body[i]]
    /\ UNCHANGED <<activeDownloads, progressIntervals, torrents, nextId,
                   destroyCallbacks, disk, emitted, removed, fsFiles,
                   sockets, sent, client, pipe, tree, proc, supplied>>

InitRoundTrip ==
    /\ activeDownloads = EmptyMap
    /\ progressIntervals = {}
    /\ torrents = EmptyMap
    /\ nextId = 1
    /\ destroyCallbacks = {}
    /\ disk = {}
    /\ emitted = <<>>
    /\ last = [op |-> "init", id |-> 0, code |-> 0]
    /\ removed = {}
    /\ fsFiles = Disk(MaxFileSize)
    /\ request = ListRequest
    /\ response = NoResponse
    /\ sockets = {}
    /\ sent = EmptyMap
    /\ client = ClosedPage
    /\ pipe = NoPipe
    /\ tree \in {t \in Trees : t.sep = "/"}
    /\ proc = Running
    /\ supplied = <<"a">>

NextRoundTrip ==
    \/ GetApiFiles
    \/ \E i \in 1..Len(response.body) : FollowDownloadUrl(i)
    \/ GetFiles(request.param)

SpecRoundTrip == InitRoundTrip /\ [][NextRoundTrip]_vars

(***************************************************************************)
(* The progress arithmetic: one session whose torrent has a length drawn   *)
(* from ProgressLengths                                                    *)
(***************************************************************************)
\* the torrent object of a torrent of that length, its metadata known to
\* the engine
SizedTorrent(length) ==
    [NewTorrent EXCEPT !.ready = TRUE, !.name = <<"a">>, !.length = length,
                       !.files = << [name |-> <<"f">>, length |-> length,
                                     path |-> <<"a","/","f">>] >>]

\* the state POST /api/downloads leaves behind: one session, its interval
\* registered, no event handled yet
InitProgress ==
    /\ activeDownloads = MapSet(EmptyMap, 1, createDownloadEntry(1))
    /\ progressIntervals = {1}
    /\ torrents \in {MapSet(EmptyMap, 1, SizedTorrent(length)) :
                         length \in ProgressLengths}
    /\ nextId = 2
    /\ destroyCallbacks = {}
    /\ disk = {}
    /\ emitted = <<>>
    /\ last = [op |-> "post", id |-> 1, code |-> 200,
               body |-> "magnet", addThrows |-> FALSE]
    /\ removed = {}
    /\ fsFiles = Disk(MaxFileSize)
    /\ request = NoRequest
    /\ response = NoResponse
    /\ sockets = {}
    /\ sent = EmptyMap
    /\ client = ClosedPage
    /\ pipe = NoPipe
    /\ tree = EmptyRoot
    /\ proc = Running
    /\ supplied = <<"a">>

NextProgress ==
    \/ \E id \in DOMAIN torrents : OnMetadata(id)
    \/ \E id \in DOMAIN torrents, s \in Samples :
          \E d \in 0..torrents[id].length : OnDownload(id, d, s)
    \/ \E id \in DOMAIN torrents : Tick(id)
    \/ \E id \in DOMAIN torrents : OnDone(id)

SpecProgress == InitProgress /\ [][NextProgress]_vars

(***************************************************************************)
(* Properties of the file server                                           *)
(***************************************************************************)
\* p is the downloads directory or lies below it
InsideRoot(p) ==
    \/ p = DOWNLOADS_DIR
    \/ StartsWith(p, DOWNLOADS_DIR \o <<"/">>)

Handled == response.status # 0

\* C5: GET /stream and GET /files touch the file system only at a path
\* inside the downloads root (the root followed by a separator; the root
\* itself is let pass here): a sibling whose name begins with the root's
\* name is never read.
C5_ReadsOnlyInsideRoot ==
    (Handled /\ response.touched) => InsideRoot(response.path)

\* a path without a leading separator, empty segment, "." or ".." segment
PlainRelative(filePath) ==
    /\ filePath # <<>>
    /\ \A seg \in {Split(filePath, "/")[i] :
                      i \in DOMAIN Split(filePath, "/")} :
          seg \notin {<<>>, <<".">>, <<".", ".">>}

\* C6: a requested path that is absolute or whose normalization leaves the
\* root is answered 400 by both handlers; a plain relative path is accepted
\* and resolves to a location under the root.
C6_RejectsEscapes ==
    LET filePath == decodeURIComponent(request.param) IN
    (Handled /\ filePath # URIError)
    => /\ (\/ (filePath # <<>> /\ Head(filePath) = "/")
           \/ ~InsideRoot(normalize(DOWNLOADS_DIR \o <<"/">> \o filePath)))
          => response.status = 400
       /\ PlainRelative(filePath)
          => /\ response.status # 400
             /\ StartsWith(response.path, DOWNLOADS_DIR \o <<"/">>)

\* the numbers a Range header of the model can name
RangeNumbers == 0..(10 + MaxFileSize)

\* the response is 206 for the bytes s..e of content
IsPartial(content, s, e) ==
    /\ response.status = 206
    /\ {"Content-Range", "Content-Length"} \subseteq DOMAIN response.headers
    /\ response.headers["Content-Range"] =
          <<"b","y","t","e","s"," ">> \o IntToString(s) \o <<"-">> \o
          IntToString(e) \o <<"/">> \o IntToString(Len(content))
    /\ response.headers["Content-Length"] = IntToString((e - s) + 1)
    /\ response.body = [i \in 1..((e - s) + 1) |-> content[s + i]]

\* C7: for an existing file of size N, GET /stream answers bytes=s-e with
\* 0 <= s <= e < N by 206, Content-Range bytes s-e/N, Content-Length e-s+1
\* and the bytes s..e; bytes=s- the same with e = N-1; s >= N or e >= N by
\* 416; no Range header by 200, Content-Length N, Accept-Ranges bytes and
\* the whole file.
C7_RangeServing ==
    (Handled /\ request.op = "stream" /\ response.path \in DOMAIN fsFiles)
    => LET content == fsFiles[response.path]
           N == Len(content)
       IN /\ \A s, e \in RangeNumbers :
               /\ (request.range = ClosedRange(s, e) /\ s <= e /\ e < N)
                  => IsPartial(content, s, e)
               /\ (request.range = OpenRange(s) /\ s < N)
                  => IsPartial(content, s, N - 1)
               /\ (request.range = ClosedRange(s, e) /\ (s >= N \/ e >= N))
                  => response.status = 416
               /\ (request.range = OpenRange(s) /\ s >= N)
                  => response.status = 416
          /\ request.range = NoRange
             => /\ response.status = 200
                /\ "Content-Length" \in DOMAIN response.headers
                /\ response.headers["Content-Length"] = IntToString(N)
                /\ "Accept-Ranges" \in DOMAIN response.headers
                /\ response.headers["Accept-Ranges"] = <<"b","y","t","e","s">>
                /\ response.body = content

\* bytes=1- was answered with the second half of a two-byte file
C7_Witness ==
    /\ request.op = "stream"
    /\ request.range = OpenRange(1)
    /\ response.status = 206
    /\ response.body = <<12>>

\* C8: every Range request for an existing file is answered 416 or 206, and
\* a 206 names a range with 0 <= start <= end < fileSize and a
\* Content-Length of end - start + 1.
C8_RangeAnswers ==
    (/\ Handled /\ request.op = "stream"
     /\ request.range \notin {NoRange, <<>>}
     /\ response.path \in DOMAIN fsFiles)
    => /\ response.status \in {206, 416}
       /\ response.status = 206
          => \E s, e \in RangeNumbers :
                /\ s <= e /\ e < Len(fsFiles[response.path])
                /\ IsPartial(fsFiles[response.path], s, e)

(***************************************************************************)
(* Properties of the session manager                                       *)
(***************************************************************************)
EngineEvents == {"metadata", "download", "done", "error"}
Terminal == {"completed", "error"}

\* C1: once a session's status is completed or error, no step changes that
\* status while the session stays in the store.
C1_TerminalAbsorbing ==
    [][\A id \in Ids :
          (/\ id \in DOMAIN activeDownloads
           /\ activeDownloads[id].status \in Terminal
           /\ id \in DOMAIN activeDownloads')
          => activeDownloads'[id].status = activeDownloads[id].status]_vars

\* C2: no download-update carries the id of a session that a DELETE answered
\* 200 has removed.
C2_NoUpdateAfterRemoval ==
    \A i \in DOMAIN emitted :
        emitted[i].event = "download-update"
        => emitted[i].data.id \notin removed

\* an engine event arrived for a session that was removed before
C2_Witness ==
    /\ last.op \in EngineEvents
    /\ last.id \in removed

\* C3: from one state to the next, the progress of a session that is and
\* stays downloading does not decrease.
C3_ProgressMonotone ==
    [][\A id \in Ids :
          (/\ id \in DOMAIN activeDownloads
           /\ id \in DOMAIN activeDownloads'
           /\ activeDownloads[id].status = "downloading"
           /\ activeDownloads'[id].status = "downloading")
          => activeDownloads'[id].progress >= activeDownloads[id].progress]_vars

\* C4: a session whose status is completed has progress 100.
C4_CompletedIsFull ==
    \A id \in DOMAIN activeDownloads :
        activeDownloads[id].status = "completed"
        => activeDownloads[id].progress = 100

\* C9: a metadata, done or error event on a session in the store emits
\* exactly one download-update, carrying the snapshot after the mutation; a
\* download event emits nothing.
C9_ImmediatePush ==
    /\ (last.op \in {"metadata", "done", "error"} /\ Has(last.id))
       => emitted = << Update("download-update",
                         serializeDownload(last.id,
                                           activeDownloads[last.id])) >>
    /\ last.op = "download" => emitted = <<>>

\* a metadata event has filled in the name of a session in the store
C9_Witness ==
    /\ last.op = "metadata"
    /\ Has(last.id)
    /\ activeDownloads[last.id].name # LoadingName
    /\ Len(emitted) = 1

\* C10: for an id not in the store, an engine event or a tick changes neither
\* the store nor the timers and emits nothing; a DELETE of it answers 404
\* and changes neither.
C10_MissingIdNoOp ==
    [][\A id \in Ids :
          (id \notin DOMAIN activeDownloads /\ last'.id = id)
          => /\ last'.op \in EngineEvents \cup {"tick"}
                => /\ activeDownloads' = activeDownloads
                   /\ progressIntervals' = progressIntervals
                   /\ emitted' = <<>>
             /\ last'.op \in {"delete", "deleteFiles"}
                => /\ last'.code = 404
                   /\ activeDownloads' = activeDownloads
                   /\ progressIntervals' = progressIntervals
                   /\ emitted' = <<>>]_vars

\* an engine event for a missing id arrived while another session is in the
\* store
C10_Witness ==
    /\ last.op \in {"done", "error"}
    /\ ~Has(last.id)
    /\ DOMAIN activeDownloads # {}

\* C11: the entries of a session's files list carry a downloadUrl exactly
\* when the session's status is completed, and that downloadUrl is not empty.
C11_DownloadUrlIffCompleted ==
    \A id \in DOMAIN activeDownloads :
        \A i \in DOMAIN activeDownloads[id].files :
            LET file == activeDownloads[id].files[i] IN
            /\ ("downloadUrl" \in DOMAIN file)
               <=> (activeDownloads[id].status = "completed")
            /\ "downloadUrl" \in DOMAIN file => file.downloadUrl # <<>>

\* C12: in the store and in every snapshot emitted, the error field is
\* non-null only if the status is error.
C12_ErrorOnlyInErrorStatus ==
    /\ \A id \in DOMAIN activeDownloads :
           activeDownloads[id].error # Null
           => activeDownloads[id].status = "error"
    /\ \A i \in DOMAIN emitted :
           emitted[i].data.error # Null => emitted[i].data.status = "error"

\* C13: a step that removes a path from the disk is the run of a destroy
\* callback that DELETE /api/download/:id/files registered for that path,
\* never the DELETE handler itself or any other step.
C13_DeletionAfterDestroy ==
    [][\A n \in disk \ disk' :
          /\ last'.op = "destroyed"
          /\ \E cb \in destroyCallbacks \ destroyCallbacks' :
                /\ cb.id = last'.id
                /\ cb.torrentPath = n
                /\ cb.id \in removed]_vars

\* DELETE /api/download/:id/files has answered 200 and removed the entry
\* while the session's output is still on disk, its callback pending
C13_Witness ==
    /\ last.op = "deleteFiles"
    /\ last.code = 200
    /\ ~Has(last.id)
    /\ \E cb \in destroyCallbacks :
          cb.id = last.id /\ cb.torrentPath \in disk

\* the frame of a DELETE /api/download/:id step on the session id: nothing
\* is emitted, no file and no pending callback is touched, and every other
\* session keeps its entry, its timer and its torrent
DeleteFrame(id) ==
    /\ disk' = disk
    /\ destroyCallbacks' = destroyCallbacks
    /\ emitted' = <<>>
    /\ DOMAIN torrents' = DOMAIN torrents
    /\ \A o \in Ids \ {id} :
          /\ o \in DOMAIN activeDownloads' <=> o \in DOMAIN activeDownloads
          /\ o \in DOMAIN activeDownloads
             => activeDownloads'[o] = activeDownloads[o]
          /\ o \in progressIntervals' <=> o \in progressIntervals
          /\ o \in DOMAIN torrents => torrents'[o] = torrents[o]

\* the effect of a DELETE answered 200 on its own session: entry and timer
\* gone, the torrent destroyed
DeleteRemoves(id) ==
    /\ last'.code = 200
    /\ id \notin DOMAIN activeDownloads'
    /\ id \notin progressIntervals'
    /\ torrents'[id] = [torrents[id] EXCEPT !.destroyed = TRUE]

\* a DELETE of an id that is not in the store: 404, nothing changes
DeleteMissing(id) ==
    /\ last'.code = 404
    /\ activeDownloads' = activeDownloads
    /\ progressIntervals' = progressIntervals
    /\ torrents' = torrents

\* C14 as stated: a DELETE /api/download/:id of an id in the store removes
\* that entry, destroys that torrent, deletes no file and answers 200, all
\* other sessions and timers unchanged; a DELETE of an id not in the store
\* (a second DELETE) answers 404 and destroys nothing.
C14_DeleteRemovesExactlyOne ==
    [][last'.op = "delete"
       => /\ DeleteFrame(last'.id)
          /\ Has(last'.id) => DeleteRemoves(last'.id)
          /\ ~Has(last'.id) => DeleteMissing(last'.id)]_vars

\* C14 amended: the same, unless torrent.destroy throws: then the answer is
\* 500, the entry stays in the store and the torrent is left as it was.
C14_DeleteRemovesUnlessDestroyFails ==
    [][last'.op = "delete"
       => /\ DeleteFrame(last'.id)
          /\ Has(last'.id)
             => \/ DeleteRemoves(last'.id)
                \/ /\ last'.code = 500
                   /\ activeDownloads' = activeDownloads
                   /\ torrents' = torrents
          /\ ~Has(last'.id) => DeleteMissing(last'.id)
          /\ last'.id \in removed => last'.code = 404]_vars

\* a DELETE answered 200 has removed one session while another one is in the
\* store with its timer running
C14_Witness ==
    /\ last.op = "delete"
    /\ last.code = 200
    /\ last.id \in removed
    /\ \E o \in DOMAIN activeDownloads : o \in progressIntervals

\* the magnetLink the claim says is answered 400: missing, not a string,
\* longer than the maximum length or not starting with magnet:?
C15_Rejected(m) ==
    \/ m.type = "undefined"
    \/ m.type # "string"
    \/ Len(m.value) > 2000
    \/ ~StartsWith(m.value, MagnetPrefix)

\* a POST answered with an error leaves store, torrents and timers alone
C15_NothingCreated ==
    last'.code # 200
    => /\ activeDownloads' = activeDownloads
       /\ progressIntervals' = progressIntervals
       /\ torrents' = torrents
       /\ nextId' = nextId
       /\ emitted' = <<>>

C16_ListFirst ==
    [][/\ \A c \in sockets' :
             /\ sent'[c] # <<>>
             /\ Head(sent'[c]) = "downloads-list"
             /\ \A i \in 2..Len(sent'[c]) : sent'[c][i] = "download-update"
       /\ last'.op = "connect"
          => LET list == last'.list IN
             /\ sent'[last'.socket] = <<"downloads-list">>
             /\ Len(list) = Cardinality(DOMAIN activeDownloads)
             /\ {list[i].id : i \in DOMAIN list} = DOMAIN activeDownloads
             /\ \A i \in DOMAIN list :
                   /\ list[i].id \notin removed
                   /\ list[i] = serializeDownload(list[i].id,
                                    activeDownloads[list[i].id])]_vars

\* a socket connected while one session was in the store and another had
\* been removed, and was sent a download-update afterwards
C16_Witness ==
    /\ removed # {}
    /\ \E c \in sockets :
          /\ sent[c] = <<"downloads-list", "download-update">>
          /\ DOMAIN activeDownloads # {}

\* C17: from one state to the next, the download the page holds for an id
\* does not go from completed back to downloading, and its progress does
\* not go down while it is downloading (the server's own session, under
\* SpecClient, moves forward only).
C17_ViewNeverRegresses ==
    [][\A id \in DOMAIN client.downloads \cap DOMAIN client'.downloads :
          LET old == client.downloads[id]
              new == client'.downloads[id]
          IN /\ old.status = "completed" => new.status = "completed"
             /\ (old.status = "downloading" /\ new.status = "downloading")
                => new.progress >= old.progress]_vars

\* C18: when the read stream of GET /stream fails after the response has
\* started, the response is eventually ended or aborted.
C18_ErrorTerminates ==
    (pipe.stream = "errored") ~> (pipe.res \in {"ended", "aborted"})

(***************************************************************************)
(* Properties of the file listing                                          *)
(***************************************************************************)
\* the files reachable from DOWNLOADS_DIR through readable directories, each
\* by the names on its way
ReachableFiles ==
    IF tree.root.kind # "dir" \/ ~tree.root.readable THEN {}
    ELSE LET top == tree.root.entries IN
         {<<n>> : n \in {k \in DOMAIN top : top[k].kind = "file"}}
         \cup UNION {
              {<<n, m>> : m \in {k \in DOMAIN top[n].entries :
                                    top[n].entries[k].kind = "file"}} :
              n \in {k \in DOMAIN top : /\ top[k].kind = "dir"
                                        /\ top[k].readable}}

\* the node a reachable file's names lead to
NodeAt(p) ==
    IF Len(p) = 1 THEN tree.root.entries[p[1]]
    ELSE tree.root.entries[p[1]].entries[p[2]]

Listed == response # NoResponse /\ request = ListRequest

\* C19: GET /api/files answers 200 with exactly one entry for every
\* reachable file, holding its name, its path relative to the root and its
\* size, and with no other entry.
C19_ListsReachableFiles ==
    Listed
    => /\ response.status = 200
       /\ LET files == response.body IN
          /\ \A i, j \in DOMAIN files :
                files[i].path = files[j].path => i = j
          /\ {[name |-> files[i].name, path |-> files[i].path,
               size |-> files[i].size] : i \in DOMAIN files}
             = {[name |-> p[Len(p)],
                 path |-> JoinWith(p, <<tree.sep>>),
                 size |-> NodeAt(p).size] : p \in ReachableFiles}

\* a listing of a file from a root that holds, before that file, a
\* directory that cannot be read, and in which a directory holds an entry
\* that cannot be stat'ed
C19_Witness ==
    /\ Listed
    /\ Len(response.body) >= 1
    /\ \E n, m \in DOMAIN tree.root.entries :
          /\ n = NameOrder[1]
          /\ tree.root.entries[n].kind = "dir"
          /\ ~tree.root.entries[n].readable
          /\ tree.root.entries[m].kind = "dir"
          /\ \E k \in DOMAIN tree.root.entries[m].entries :
                tree.root.entries[m].entries[k].kind = "broken"

\* C20: the downloadUrl of every listed file is /files/ followed by the
\* URL-encoded names on its way, separated by /.
C20_DownloadUrlFormat ==
    Listed
    => \A i \in DOMAIN response.body :
          \E p \in ReachableFiles :
             /\ JoinWith(p, <<tree.sep>>) = response.body[i].path
             /\ response.body[i].downloadUrl =
                   FilesPrefix \o
                   JoinWith([k \in DOMAIN p |-> encodeURIComponent(p[k])],
                            <<"/">>)

(***************************************************************************)
(* Properties of the shutdown                                              *)
(***************************************************************************)
\* C21: once gracefulShutdown has been called the process exits; it exits
\* with code 0 only from the callback of server.close, after the timers
\* were cancelled, then the engine torn down, then the listener closed; any
\* other exit is the forced one of the timeout, with code 1, and an exit
\* before the three stages are done has code 1.
C21_ShutdownExits ==
    /\ proc.started ~> proc.exited
    /\ [][(~proc.exited /\ proc'.exited)
          => /\ proc.started
             /\ proc'.code = 0
                => /\ last'.op = "closed"
                   /\ proc'.steps = <<"timers", "engine", "listener">>
             /\ proc'.code # 0
                => /\ last'.op = "timeout"
                   /\ proc'.code = 1
                   /\ proc.timeouts > 0
             /\ proc'.steps # <<"timers", "engine", "listener">>
                => proc'.code = 1]_vars

\* the forced exit took place after the engine was torn down, the listener
\* still waiting for its connections to end
C21_Witness ==
    /\ proc.exited
    /\ proc.code = 1
    /\ proc.steps = <<"timers", "engine">>
    /\ proc.listener = "closing"

\* C22: once gracefulShutdown has been called no timer is live and no POST
\* is answered 200.
C22_NoWorkAfterShutdown ==
    proc.started
    => /\ progressIntervals = {}
       /\ ~(last.op = "post" /\ last.code = 200)

(***************************************************************************)
(* Properties of the timers                                                *)
(***************************************************************************)
Cancelling == {"done", "error", "delete", "deleteFiles"}

C24_TimerIffDownloading ==
    \A id \in Ids :
        id \in progressIntervals
        <=> (Has(id) /\ activeDownloads[id].status = "downloading")

(***************************************************************************)
(* Properties of the removal with files                                    *)
(***************************************************************************)
\* p lies below the downloads directory and is not that directory
StrictlyInsideRoot(p) ==
    /\ StartsWith(p, DOWNLOADS_DIR \o <<"/">>)
    /\ Len(p) > Len(DOWNLOADS_DIR) + 1

\* C25: the path a destroy callback of DELETE /api/download/:id/files
\* removes lies strictly inside the downloads root.
C25_DeletesInsideRoot ==
    (last.op = "destroyed" /\ last.deleted) => StrictlyInsideRoot(last.path)

\* where the engine writes the output of session b
OutputOf(b) == pathJoin(DOWNLOADS_DIR, torrents[b].name)

\* C26: the destroy callback of a DELETE /api/download/:id/files for one
\* session leaves on disk the output of every other session that is in the
\* store, downloading and has written some.
C26_KeepsOtherOutput ==
    [][last'.op = "destroyed"
       => \A b \in DOMAIN activeDownloads \ {last'.id} :
             (/\ activeDownloads[b].status = "downloading"
              /\ activeDownloads[b].downloaded > 0
              /\ OutputOf(b) \in disk)
             => OutputOf(b) \in disk']_vars

\* C27: a DELETE, of either kind, that is answered 500 leaves the store and
\* the timers as they were.
C27_FailedDeleteChangesNothing ==
    [][(last'.op \in {"delete", "deleteFiles"} /\ last'.code = 500)
       => /\ activeDownloads' = activeDownloads
          /\ progressIntervals' = progressIntervals]_vars

(***************************************************************************)
(* Properties of the store                                                 *)
(***************************************************************************)
\* the entry of a session nothing has happened to yet
FreshEntry(download) ==
    /\ download.status = "downloading"
    /\ download.name = LoadingName
    /\ download.files = <<>>
    /\ download.error = Null
    /\ download.progress = 0
    /\ download.size = 0
    /\ download.downloaded = 0
    /\ download.downloadSpeed = 0
    /\ download.uploadSpeed = 0
    /\ download.peers = 0

\* C28: a POST answered 200 adds one entry, under an id that neither the
\* store nor the engine nor the timers knew, bound to one new torrent and
\* one new timer and in the state of a fresh entry, all other entries as
\* they were; no two entries are bound to the same torrent, an entry stays
\* bound to its torrent under its id, and the id of a removed session is
\* not used again.
C28_PostAddsOneFreshEntry ==
    [][/\ (last'.op = "post" /\ last'.code = 200)
          => LET id == last'.id IN
             /\ id \notin DOMAIN activeDownloads
             /\ id \notin DOMAIN torrents
             /\ id \notin progressIntervals
             /\ id \notin removed
             /\ DOMAIN activeDownloads' = DOMAIN activeDownloads \cup {id}
             /\ \A o \in DOMAIN activeDownloads :
                   activeDownloads'[o] = activeDownloads[o]
             /\ FreshEntry(activeDownloads'[id])
             /\ DOMAIN torrents' = DOMAIN torrents \cup {id}
             /\ activeDownloads'[id].torrent = id
             /\ torrents'[id] = NewTorrent
             /\ progressIntervals' = progressIntervals \cup {id}
       /\ \A a, b \in DOMAIN activeDownloads' :
             /\ activeDownloads'[a].torrent \in DOMAIN torrents'
             /\ activeDownloads'[a].torrent = activeDownloads'[b].torrent
                => a = b
       /\ \A a \in DOMAIN activeDownloads \cap DOMAIN activeDownloads' :
             activeDownloads'[a].torrent = activeDownloads[a].torrent
       /\ \A a \in removed : a \notin DOMAIN activeDownloads']_vars

\* a second POST was answered 200 while the first session is completed
C28_Witness ==
    /\ last.op = "post"
    /\ last.code = 200
    /\ \E o \in DOMAIN activeDownloads :
          /\ o # last.id
          /\ activeDownloads[o].status = "completed"

\* the steps that only read the store
ReadOps == {"getDownloads", "health", "connect", "disconnect", "tick"}

\* C29: a step that changes a field of an entry is an engine event of that
\* id; a step that changes which ids are in the store is a POST or a DELETE
\* answered 200, of that id; GET /api/downloads, GET /api/files, GET
\* /api/health, a connection and a tick leave store and timers as they are;
\* a session that is completed or in error leaves the store only by a
\* DELETE of its id.
C29_OnlyWritersWrite ==
    [][/\ \A id \in DOMAIN activeDownloads \cap DOMAIN activeDownloads' :
             activeDownloads'[id] # activeDownloads[id]
             => (last'.op \in EngineEvents /\ last'.id = id)
       /\ \A id \in DOMAIN activeDownloads' \ DOMAIN activeDownloads :
             last'.op = "post" /\ last'.code = 200 /\ last'.id = id
       /\ \A id \in DOMAIN activeDownloads \ DOMAIN activeDownloads' :
             /\ last'.op \in {"delete", "deleteFiles"}
             /\ last'.code = 200
             /\ last'.id = id
       /\ (last'.op \in ReadOps \/ response' # response)
          => /\ activeDownloads' = activeDownloads
             /\ progressIntervals' = progressIntervals
             /\ torrents' = torrents]_vars

\* the health check was answered after the files were listed, a socket
\* connected, one session in error and another one completed in the store
C29_Witness ==
    /\ last.op = "health"
    /\ response # NoResponse
    /\ sockets # {}
    /\ \E a, b \in DOMAIN activeDownloads :
          /\ activeDownloads[a].status = "error"
          /\ activeDownloads[b].status = "completed"

(***************************************************************************)
(* Properties of the earlier server                                        *)
(***************************************************************************)
\* C30: in the earlier server, no interval of a session that a DELETE
\* answered 200 has removed is still scheduled.
C30_RemovalStopsTimer ==
    \A id \in removed : id \notin progressIntervals

(***************************************************************************)
(* C31: after a download event applied to a live session whose size is     *)
(* greater than 0, the stored progress is 100 * downloaded / size rounded  *)
(* to the nearest integer, and it is an integer in 0..100                  *)
(***************************************************************************)
C31_ProgressIsRounded ==
    \A id \in DOMAIN activeDownloads :
        (last.op = "download" /\ last.id = id
         /\ activeDownloads[id].size > 0)
        => LET download == activeDownloads[id] IN
           /\ download.progress \in 0..100
           /\ download.progress =
                  (200 * download.downloaded + download.size)
                      \div (2 * download.size)

(***************************************************************************)
(* C32: a read error of the file stream of GET /stream after the response  *)
(* has started leaves the status, the headers and the body of that         *)
(* response as they are, in the range branch (206) and in the full-file    *)
(* branch (200)                                                            *)
(***************************************************************************)
C32_ErrorLeavesResponse ==
    [][(pipe.stream = "reading" /\ pipe'.stream = "errored"
        /\ response.status \in {200, 206})
       => /\ response' = response
          /\ pipe'.res = pipe.res]_vars

\* a range response whose read fails after a part of the range was written
C32_Witness ==
    /\ pipe.stream = "errored"
    /\ response.status = 206
    /\ pipe.written > 0
    /\ pipe.written < pipe.total

(***************************************************************************)
(* C33: once removeDownload(id) of the browser client has succeeded, the   *)
(* session is not in the page's downloads map again, and a card of it is   *)
(* in the list only as long as the timeout of that call still holds it,    *)
(* whatever the order in which the socket events and the answer arrive     *)
(***************************************************************************)
C33_RemovedStaysGone ==
    \A id \in client.gone :
        /\ id \notin DOMAIN client.downloads
        /\ id \in client.cards
              => [id |-> id, attached |-> TRUE] \in client.timers

(***************************************************************************)
(* C34: after the page has handled a downloads-list event or the answer to *)
(* GET /api/downloads, its downloads map holds exactly the sessions of     *)
(* that list and its badge shows the number of sessions of that list with  *)
(* the status downloading                                                  *)
(***************************************************************************)
C34_ListReplacesMap ==
    [][\A downloadList \in
            (IF client.inbox # <<>>
                /\ Head(client.inbox).event = "downloads-list"
                /\ client'.inbox = Tail(client.inbox)
             THEN {Head(client.inbox).data} ELSE {})
            \cup
            (IF client.pending.state = "response"
                /\ client'.pending = NoPending
             THEN {client.pending.list} ELSE {}) :
          /\ DOMAIN client'.downloads =
                {downloadList[i].id : i \in DOMAIN downloadList}
          /\ client'.count =
                Cardinality({i \in DOMAIN downloadList :
                                downloadList[i].status = "downloading"})
      ]_vars

(***************************************************************************)
(* C35: for every file GET /api/files lists, the request of its            *)
(* downloadUrl is resolved by the /files handler, after the router's       *)
(* decoding of the route parameter and the handler's own, to the path of   *)
(* that file under the downloads directory                                 *)
(***************************************************************************)
C35_DownloadUrlRoundTrip ==
    (request.op = "files" /\ response # NoResponse /\ last.op = "follow")
    => response.path = pathJoin(DOWNLOADS_DIR, last.file.path)
====
